---- MODULE Spec2Model ----
(***************************************************************************)
(* A model of the audio-to-score aligner: the batch driver (aligner.py),   *)
(* the alignment pipeline and label merger (utils.py) and the timeline     *)
(* builder (make_timeline.py).                                             *)
(*                                                                         *)
(* Each part of the program has its own variables and its own              *)
(* specification (SpecBatch, SpecWarped, SpecMerge, SpecAlign,             *)
(* SpecTimeline, SpecTimeModel, SpecNormalizer, SpecWarpMap, SpecKeys,     *)
(* SpecWarpAnnotations, SpecExports, SpecJobs); the variables of the parts *)
(* a specification does not exercise stay at their idle values.            *)
(*                                                                         *)
(* Tables (pandas DataFrames) are sequences of rows in table order; a row  *)
(* is a record.  A missing value (NaN / NA / None) is the empty sequence   *)
(* <<>> and a present value v is <<v>>, wherever a cell may be missing.    *)
(***************************************************************************)
EXTENDS Integers, Sequences, FiniteSets, TLC

\* ------------------------------------------------------------------ bounds
\* longest batch job list
MaxJobs == 2
\* most rows of a notes table handed to the back-projection step
MaxNotes == 3
\* most notes of a score handed to the label merger; its quarterbeat positions
\* are 0..MaxMergeNotes
MaxMergeNotes == 2
\* most measures of a score handed to the timeline builder
MaxMeasures == 2
\* largest numerator of a time signature handed to the time model
MaxNumerator == 9
\* most rows of a table of aligned harmony labels handed to the key export
MaxHarmonies == 4
\* the largest number of events of an annotation handed to warp_annotations
MaxEvents == 2

\* ------------------------------------------------------------- generic helpers
Missing == <<>>
Some(v) == <<v>>
IsMissing(c) == c = <<>>
Val(c) == c[1]

Range(s) == {s[i] : i \in 1..Len(s)}

RECURSIVE SeqsUpTo(_, _)
\* all sequences over S of length 0..n
SeqsUpTo(S, n) ==
    IF n = 0 THEN {<<>>}
    ELSE LET shorter == SeqsUpTo(S, n - 1)
         IN  shorter \cup {Append(s, x) : s \in {t \in shorter : Len(t) = n - 1}, x \in S}

VARIABLES
    \* ---- batch_process (aligner.py)
    mapping,      \* the job list read from the CSV: a sequence of rows
    store_path,   \* "none" (None) or "dir" (an existing directory)
    has_names,    \* whether the CSV has a "name" column
    row,          \* position of the loop over mapping.itertuples()
    bpc,          \* "idle", "resolve", "align", "done", "crashed"
    visited,      \* rows whose loop body was entered, in order
    attempted,    \* rows for which align_and_maybe_timeline was called, in order
    reported      \* rows whose error was caught and printed, in order

VARIABLES
    \* ---- get_original_notes_warped (utils.py)
    notes_df,             \* the table ms3.load_tsv(notes_path) returns
    df_annotation_warped, \* the warped table, computed from the notes in score order
    gw_result,            \* what the call returned or raised
    wpc                   \* "idle", "call", "returned", "raised"

VARIABLES
    \* ---- align_corpus_notes_and_labels / align_warped_notes_labels (utils.py)
    m_notes,      \* the notes table of the score
    m_labels,     \* the labels table of the score
    m_warped,     \* df_annotation_warped
    m_extended,   \* notes_labels_extended
    m_last_end,   \* the audio duration
    m_mode,       \* the 'mode' argument
    m_result,     \* what align_warped_notes_labels returned or raised
    mpc           \* "idle", "call", "returned", "raised"

VARIABLES
    \* ---- align_notes_labels_audio (utils.py)
    a_notes,          \* the table at notes_path
    a_labels,         \* the table at labels_path, or <<>> when labels_path is None
    a_mode,           \* the 'mode' argument
    a_evaluate,       \* the 'evaluate' argument
    a_store,          \* the 'store' argument
    apc,              \* the statement the call is at, "returned" or "raised"
    a_df_annotation,  \* df_annotation
    a_extended,       \* df_annotation_extended, <<>> for None
    a_audio_duration, \* audio_duration
    a_wp,             \* wp
    a_warped,         \* df_annotation_warped
    a_aligned_notes,  \* aligned_notes
    a_result,         \* result
    a_stored,         \* the tables written by store_and_report_result, in order
    a_steps,          \* the expensive steps started so far, in order
    a_error           \* the exception that left the call, or "none"

VARIABLES
    \* ---- aligned_notes2timeline (make_timeline.py)
    t_notes,      \* the aligned notes table
    t_result,     \* what aligned_notes2timeline returned or raised
    tpc           \* "idle", "call", "returned", "raised"

VARIABLES
    \* ---- the pure functions of the time model (make_timeline.py)
    tm_timesig,   \* the time signature "n/d" as <<n, d>>
    tm_onsets,    \* two onsets within the measure, as Fractions
    tm_result,    \* what the function called returned
    tmpc          \* "idle", "call", or the name of the function that was called

VARIABLES
    \* ---- corpus_to_df_musical_time, get_quarterbeats_column_name and
    \* ---- align_corpus_notes_and_labels called on their own (utils.py)
    n_notes,      \* the notes table of the notes file
    n_labels,     \* the labels table of the labels file
    n_result,     \* what the function called returned or raised
    npc           \* "idle", "call", or the name of the function that was called

VARIABLES
    \* ---- aligned_notes2qb_warp_map (make_timeline.py)
    w_notes,      \* the aligned notes table
    w_result,     \* the warp map returned
    wmpc          \* "idle", "call", "returned"

VARIABLES
    \* ---- aligned_harmonies2tilia_keys (aligner.py)
    k_harmonies,  \* the aligned harmony labels (the result table of the alignment)
    k_duration,   \* the duration of the recording, in frames
    k_result,     \* the table of key spans returned
    kpc           \* "idle", "call", "returned"

VARIABLES
    \* ---- warp_annotations called on its own (utils.py)
    wa_annotation, \* df_annotation: the canonical table in score time
    wa_path,       \* warping_path
    wa_result,     \* the warped table returned
    wapc           \* "idle", "call", "returned"

VARIABLES
    \* ---- the exports of align_and_maybe_timeline (aligner.py)
    e_notes,      \* aligned_notes returned by align_notes_labels_audio
    e_labels,     \* labels_path is not None
    e_harmonies,  \* aligned_harmonies returned by align_notes_labels_audio
    e_timeline,   \* the parameter timeline
    e_tilia,      \* the parameter tilia
    e_warp_map,   \* the parameter warp_map
    e_beatgrid,   \* tilia_beatgrid
    e_written,    \* the files stored, in order: [suffix, table]
    e_error,      \* the exception raised, or "none"
    epc           \* "idle", "exports", "timeline", "tilia", "warp_map", "returned", "raised"

VARIABLES
    \* ---- the jobs of a batch and the caches of make_timeline.py
    jb_items,      \* the rows of the batch, in the order of the CSV file
    jb_row,        \* the row the loop is at
    jb_ts_cache,   \* the cache of ts_beat_size: time signature -> beat size
    jb_o2b_cache,  \* the cache of onset2beat: arguments -> beat
    jb_outputs,    \* per row what the job computed, kind "none" when it did not run
    jbpc           \* "idle", "resolve", "align", "done", "crashed"

varsBatch == <<mapping, store_path, has_names, row, bpc, visited, attempted, reported>>
varsWarped == <<notes_df, df_annotation_warped, gw_result, wpc>>

varsMerge == <<m_notes, m_labels, m_warped, m_extended, m_last_end, m_mode, m_result, mpc>>

varsAlign == <<a_notes, a_labels, a_mode, a_evaluate, a_store, apc, a_df_annotation,
               a_extended, a_audio_duration, a_wp, a_warped, a_aligned_notes, a_result,
               a_stored, a_steps, a_error>>

varsTimeline == <<t_notes, t_result, tpc>>

varsTimeModel == <<tm_timesig, tm_onsets, tm_result, tmpc>>

varsNormalizer == <<n_notes, n_labels, n_result, npc>>

varsWarpMap == <<w_notes, w_result, wmpc>>

varsKeys == <<k_harmonies, k_duration, k_result, kpc>>

varsWarpAnnotations == <<wa_annotation, wa_path, wa_result, wapc>>

varsExports == <<e_notes, e_labels, e_harmonies, e_timeline, e_tilia, e_warp_map, e_beatgrid, e_written, e_error, epc>>

varsJobs == <<jb_items, jb_row, jb_ts_cache, jb_o2b_cache, jb_outputs, jbpc>>

vars == <<varsBatch, varsWarped, varsMerge, varsAlign, varsTimeline, varsTimeModel,
          varsNormalizer, varsWarpMap, varsKeys, varsWarpAnnotations, varsExports,
          varsJobs>>

\* the variables an action of one part leaves alone
notBatch ==
    <<varsWarped, varsMerge, varsAlign, varsTimeline, varsTimeModel, varsNormalizer,
      varsWarpMap, varsKeys, varsWarpAnnotations, varsExports, varsJobs>>
notWarped ==
    <<varsBatch, varsMerge, varsAlign, varsTimeline, varsTimeModel, varsNormalizer,
      varsWarpMap, varsKeys, varsWarpAnnotations, varsExports, varsJobs>>
notMerge ==
    <<varsBatch, varsWarped, varsAlign, varsTimeline, varsTimeModel, varsNormalizer,
      varsWarpMap, varsKeys, varsWarpAnnotations, varsExports, varsJobs>>
notAlign ==
    <<varsBatch, varsWarped, varsMerge, varsTimeline, varsTimeModel, varsNormalizer,
      varsWarpMap, varsKeys, varsWarpAnnotations, varsExports, varsJobs>>
notTimeline ==
    <<varsBatch, varsWarped, varsMerge, varsAlign, varsTimeModel, varsNormalizer, varsWarpMap,
      varsKeys, varsWarpAnnotations, varsExports, varsJobs>>
notTimeModel ==
    <<varsBatch, varsWarped, varsMerge, varsAlign, varsTimeline, varsNormalizer, varsWarpMap,
      varsKeys, varsWarpAnnotations, varsExports, varsJobs>>
notNormalizer ==
    <<varsBatch, varsWarped, varsMerge, varsAlign, varsTimeline, varsTimeModel, varsWarpMap,
      varsKeys, varsWarpAnnotations, varsExports, varsJobs>>
notWarpMap ==
    <<varsBatch, varsWarped, varsMerge, varsAlign, varsTimeline, varsTimeModel, varsNormalizer,
      varsKeys, varsWarpAnnotations, varsExports, varsJobs>>
notKeys ==
    <<varsBatch, varsWarped, varsMerge, varsAlign, varsTimeline, varsTimeModel, varsNormalizer,
      varsWarpMap, varsWarpAnnotations, varsExports, varsJobs>>
notWarpAnnotations ==
    <<varsBatch, varsWarped, varsMerge, varsAlign, varsTimeline, varsTimeModel, varsNormalizer,
      varsWarpMap, varsKeys, varsExports, varsJobs>>
notExports ==
    <<varsBatch, varsWarped, varsMerge, varsAlign, varsTimeline, varsTimeModel, varsNormalizer,
      varsWarpMap, varsKeys, varsWarpAnnotations, varsJobs>>
notJobs ==
    <<varsBatch, varsWarped, varsMerge, varsAlign, varsTimeline, varsTimeModel, varsNormalizer,
      varsWarpMap, varsKeys, varsWarpAnnotations, varsExports>>

\* ------------------------------------------------------------- tables

\* a DataFrame: its column names and its rows in table order
Table(cols, rows) == [cols |-> cols, rows |-> rows]
EmptyTable == Table({}, <<>>)

\* frames per second of both feature sequences
feature_rate == 50

\* MIDI pitches of the notes of the model's scores
Pitches == {60, 62}

\* all bijections of 1..n onto itself: the reorderings of an n-row table
Reorderings(n) == {f \in [1..n -> 1..n] : \A i, j \in 1..n : i # j => f[i] # f[j]}

\* ------------------------------------------------- ScoreTimeNormalizer (utils.py)

\* Fraction -> float, plus one.  Quarterbeats are whole numbers of quarter
\* notes in the model's scores.
\* a mutant: the position is not shifted
to_start_unshifted(quarterbeat) == quarterbeat

to_start(quarterbeat) == quarterbeat + 1

to_end(start, duration) == start + duration

\* a mutant: the plain variant is looked for first
get_quarterbeats_column_name_plain_first(cols) ==
    IF "quarterbeats" \in cols THEN "quarterbeats"
    ELSE IF "quarterbeats_playthrough" \in cols THEN "quarterbeats_playthrough"
    ELSE "ValueError"

\* the playthrough variant is looked for first; "ValueError" when neither is there
get_quarterbeats_column_name(cols) ==
    IF "quarterbeats_playthrough" \in cols THEN "quarterbeats_playthrough"
    ELSE IF "quarterbeats" \in cols THEN "quarterbeats"
    ELSE "ValueError"

\* the canonical table (start, duration, pitch, end, velocity, instrument) of a
\* notes table that has a quarterbeats column; velocity 1 stands for 1.0
corpus_to_df_musical_time(notes) ==
    LET qb_column == get_quarterbeats_column_name(notes.cols)
        canon(r) ==
            LET start == to_start(r[qb_column])
            IN  [start |-> start, duration |-> r.duration_qb, pitch |-> r.midi,
                 end |-> to_end(start, r.duration_qb),
                 velocity |-> 1, instrument |-> "piano"]
    IN  Table({"start", "duration", "pitch", "end", "velocity", "instrument"},
              [i \in 1..Len(notes.rows) |-> canon(notes.rows[i])])

\* --------------------------------------------------- warp_annotations (utils.py)

\* Warping paths after make_path_strictly_monotonic: pairs <<audio frame,
\* score frame>>, strictly increasing in both.  The paths of the model have
\* whole-number slopes, so that interpolated frames are whole numbers.
WarpPaths ==
    { << <<0, 0>>, <<100, 50>>, <<200, 150>>, <<500, 300>> >>,
      << <<0, 0>>, <<400, 400>> >> }

\* a mutant: outside the range of the path the value of the nearest point
interp1d_clamped(wp, t) ==
    LET T == t * feature_rate
        n == Len(wp)
        idx == Cardinality({k \in 1..n : wp[k][2] < T}) + 1
        hi == IF idx < 2 THEN 2 ELSE IF idx > n THEN n ELSE idx
        lo == hi - 1
    IN  IF T < wp[1][2] THEN wp[1][1]
        ELSE IF T > wp[n][2] THEN wp[n][1]
        ELSE wp[lo][1] + ((wp[hi][1] - wp[lo][1]) * (T - wp[lo][2])) \div (wp[hi][2] - wp[lo][2])

\* scipy.interpolate.interp1d(wp[1] / feature_rate, wp[0] / feature_rate,
\* kind='linear', fill_value="extrapolate") at time t (symbolic seconds).  The
\* value is in frames, 1 / feature_rate seconds, as all real times of the model.
interp1d(wp, t) ==
    LET T == t * feature_rate
        n == Len(wp)
        \* numpy.searchsorted(x, T): the first point with x >= T, clipped to 2..n
        idx == Cardinality({k \in 1..n : wp[k][2] < T}) + 1
        hi == IF idx < 2 THEN 2 ELSE IF idx > n THEN n ELSE idx
        lo == hi - 1
    IN  wp[lo][1] + ((wp[hi][1] - wp[lo][1]) * (T - wp[lo][2])) \div (wp[hi][2] - wp[lo][2])

\* a warped row is the canonical row with real-time start, end and duration
warp_annotations(df_annotation, warping_path) ==
    LET warped(r) ==
            LET start == interp1d(warping_path, r.start)
                end == interp1d(warping_path, r.start + r.duration)
            IN  [r EXCEPT !.start = start, !.end = end, !.duration = end - start]
    IN  Table(df_annotation.cols,
              [i \in 1..Len(df_annotation.rows) |-> warped(df_annotation.rows[i])])

\* ------------------------------------------- get_original_notes_warped (utils.py)

\* pandas.Series.equals: same length and the same value in every row
series_equals(a, b) == Len(a) = Len(b) /\ \A i \in 1..Len(a) : a[i] = b[i]

Column(rows, name) == [i \in 1..Len(rows) |-> rows[i][name]]

\* a mutant: only the start is attached
concat_start_only(notes, warped) ==
    Table(notes.cols \cup {"start"},
          [i \in 1..Len(notes.rows) |-> notes.rows[i] @@ [start |-> warped.rows[i].start]])

\* pd.concat([notes_df, df_annotation_warped[['start', 'end']]], axis=1) of two
\* tables of the same length
concat_start_end(notes, warped) ==
    Table(notes.cols \cup {"start", "end"},
          [i \in 1..Len(notes.rows) |->
              notes.rows[i] @@ [start |-> warped.rows[i].start, end |-> warped.rows[i].end]])

\* a mutant: the pitch check is left out
get_original_notes_warped_unchecked(notes, warped) ==
    IF "start" \in notes.cols
    THEN [kind |-> "table", table |-> notes, warned |-> TRUE]
    ELSE IF Len(notes.rows) = Len(warped.rows)
    THEN [kind |-> "table", table |-> concat_start_end(notes, warped), warned |-> FALSE]
    ELSE [kind |-> "AssertionError", table |-> EmptyTable, warned |-> FALSE]

\* a mutant: the pitch check comes before the look for a 'start' column
get_original_notes_warped_assert_first(notes, warped) ==
    IF ~series_equals(Column(notes.rows, "midi"), Column(warped.rows, "pitch"))
    THEN [kind |-> "AssertionError", table |-> EmptyTable, warned |-> FALSE]
    ELSE IF "start" \in notes.cols
    THEN [kind |-> "table", table |-> notes, warned |-> TRUE]
    ELSE [kind |-> "table", table |-> concat_start_end(notes, warped), warned |-> FALSE]

\* the value get_original_notes_warped returns (kind "table") or the error it
\* raises, and whether it emitted the warning
get_original_notes_warped(notes, warped) ==
    IF "start" \in notes.cols
    THEN [kind |-> "table", table |-> notes, warned |-> TRUE]
    ELSE IF ~series_equals(Column(notes.rows, "midi"), Column(warped.rows, "pitch"))
    THEN [kind |-> "AssertionError", table |-> EmptyTable, warned |-> FALSE]
    ELSE [kind |-> "table", table |-> concat_start_end(notes, warped), warned |-> FALSE]

NotesCols == {"id", "quarterbeats", "duration_qb", "midi"}

\* a notes table in score order: one note per quarter note, each one quarter
\* long; id is the note's identity (its row in the score)
ScoreNotes(midi) ==
    Table(NotesCols,
          [i \in 1..Len(midi) |->
              [id |-> i, quarterbeats |-> i - 1, duration_qb |-> 1, midi |-> midi[i]]])

\* the table with its rows reordered by perm
Reordered(t, perm) == Table(t.cols, [i \in 1..Len(t.rows) |-> t.rows[perm[i]]])

\* the table with a 'start' column of an earlier alignment
WithPriorStart(t) ==
    Table(t.cols \cup {"start"},
          [i \in 1..Len(t.rows) |-> t.rows[i] @@ [start |-> t.rows[i].id]])

IdleWarped ==
    /\ notes_df = EmptyTable
    /\ df_annotation_warped = EmptyTable
    /\ gw_result = [kind |-> "none"]
    /\ wpc = "idle"

InitWarped ==
    \E n \in 0..MaxNotes :
      \E midi \in [1..n -> Pitches], perm \in Reorderings(n), wp \in WarpPaths,
         prior \in BOOLEAN :
        /\ notes_df = IF prior THEN WithPriorStart(Reordered(ScoreNotes(midi), perm))
                               ELSE Reordered(ScoreNotes(midi), perm)
        /\ df_annotation_warped =
               warp_annotations(corpus_to_df_musical_time(ScoreNotes(midi)), wp)
        /\ gw_result = [kind |-> "none"]
        /\ wpc = "call"

GetOriginalNotesWarped ==
    /\ wpc = "call"
    /\ gw_result' = get_original_notes_warped(notes_df, df_annotation_warped)
    /\ wpc' = IF gw_result'.kind = "table" THEN "returned" ELSE "raised"
    /\ UNCHANGED <<notes_df, df_annotation_warped>>
    /\ UNCHANGED notWarped

NextWarped == GetOriginalNotesWarped

\* ------------------------------------------------------ LabelMerger (utils.py)

RECURSIVE SortedSeq(_)
\* the numbers of a finite set in ascending order
SortedSeq(S) ==
    IF S = {} THEN <<>>
    ELSE LET lo == CHOOSE x \in S : \A y \in S : x <= y
         IN  <<lo>> \o SortedSeq(S \ {lo})

RECURSIVE Flatten(_)
\* the concatenation of a sequence of sequences
Flatten(ss) == IF ss = <<>> THEN <<>> ELSE Head(ss) \o Flatten(Tail(ss))

\* pd.merge(notes_qb, labels_qb.drop(columns=[...]), on=quarterbeats, how='outer'):
\* the union of the keys in ascending order; per key every notes row with every
\* labels row of that key, a notes row alone with a missing label, a labels row
\* alone with missing note fields
merge_outer_on_quarterbeats(notes, labels, qb_column) ==
    LET notes_rows == notes.rows
        labels_rows == labels.rows
        keys == SortedSeq({notes_rows[i][qb_column] : i \in 1..Len(notes_rows)}
                          \cup {labels_rows[i][qb_column] : i \in 1..Len(labels_rows)})
        columns == notes.cols \cup {"label"}
        joined(l, r) == [c \in columns |->
                            IF c = qb_column THEN l[c]
                            ELSE IF c = "label" THEN Some(r.label) ELSE Some(l[c])]
        left_only(l) == [c \in columns |->
                            IF c = qb_column THEN l[c]
                            ELSE IF c = "label" THEN Missing ELSE Some(l[c])]
        right_only(r) == [c \in columns |->
                            IF c = qb_column THEN r[c]
                            ELSE IF c = "label" THEN Some(r.label) ELSE Missing]
        of_key(k) ==
            LET L == SelectSeq(notes_rows, LAMBDA l : l[qb_column] = k)
                R == SelectSeq(labels_rows, LAMBDA r : r[qb_column] = k)
            IN  IF R = <<>> THEN [i \in 1..Len(L) |-> left_only(L[i])]
                ELSE IF L = <<>> THEN [i \in 1..Len(R) |-> right_only(R[i])]
                ELSE Flatten([i \in 1..Len(L) |-> [j \in 1..Len(R) |-> joined(L[i], R[j])]])
    IN  Flatten([i \in 1..Len(keys) |-> of_key(keys[i])])

\* notes outer-joined with labels; "ValueError" when the two tables resolve to
\* different quarterbeats columns or one has none
align_corpus_notes_and_labels(notes, labels) ==
    LET notes_qb_column == get_quarterbeats_column_name(notes.cols)
        labels_qb_column == get_quarterbeats_column_name(labels.cols)
    IN  IF notes_qb_column = "ValueError" \/ labels_qb_column = "ValueError"
           \/ notes_qb_column # labels_qb_column
        THEN [kind |-> "ValueError", table |-> EmptyTable]
        ELSE [kind |-> "table",
              table |-> Table(notes.cols \cup {"label"},
                              merge_outer_on_quarterbeats(notes, labels, notes_qb_column))]

\* the rows of pd.merge(left, right, how="outer", left_index=True,
\* right_index=True): row i pairs row i of both tables; the side that has no
\* row i is missing
left_at(warped, i) ==
    IF i <= Len(warped.rows)
    THEN [start |-> Some(warped.rows[i].start), duration |-> Some(warped.rows[i].duration),
          end |-> Some(warped.rows[i].end)]
    ELSE [start |-> Missing, duration |-> Missing, end |-> Missing]

right_at(extended, i) ==
    IF i <= Len(extended.rows)
    THEN extended.rows[i]
    ELSE [id |-> Missing, quarterbeats |-> Missing, duration_qb |-> Missing,
          midi |-> Missing, label |-> Missing]

index_union(warped, extended) ==
    1..(IF Len(warped.rows) >= Len(extended.rows) THEN Len(warped.rows) ELSE Len(extended.rows))

\* dropna(subset='label')
dropna_label(rows) == SelectSeq(rows, LAMBDA r : ~IsMissing(r.label))

\* drop_duplicates(subset=['start', 'label']): the first row of every
\* (start, label) pair is kept; two missing starts count as equal
drop_duplicates_start_label(rows) ==
    LET first(i) == \A j \in 1..(i - 1) :
                        ~(rows[j].start = rows[i].start /\ rows[j].label = rows[i].label)
        kept == SortedSeq({i \in 1..Len(rows) : first(i)})
    IN  [k \in 1..Len(kept) |-> rows[kept[k]]]

\* end = start.shift(-1).fillna(last_end); duration_seconds = end - start.
\* An assignment to an attribute that is no column of the table sets a Python
\* attribute on the DataFrame object and leaves the table as it was.
update_duration_and_end_from_start(t, last_end) ==
    LET n == Len(t.rows)
        shifted(i) == IF i < n THEN t.rows[i + 1].start ELSE Missing
        end(i) == IF IsMissing(shifted(i)) THEN Some(last_end) ELSE shifted(i)
        with_end(i) == IF "end" \in t.cols
                       THEN [t.rows[i] EXCEPT !.end = end(i)]
                       ELSE t.rows[i]
        with_duration(i) ==
            IF "duration_seconds" \in t.cols
            THEN [with_end(i) EXCEPT !.duration_seconds =
                      IF IsMissing(t.rows[i].start) THEN Missing
                      ELSE Some(Val(end(i)) - Val(t.rows[i].start))]
            ELSE with_end(i)
    IN  Table(t.cols, [i \in 1..n |-> with_duration(i)])

\* mode 'compact' before the update of end and duration
merged_compact(warped, extended) ==
    LET idx == index_union(warped, extended)
        rows == [i \in idx |-> [start |-> left_at(warped, i).start,
                                label |-> right_at(extended, i).label]]
    IN  Table({"start", "label"}, drop_duplicates_start_label(dropna_label(rows)))

\* mode 'labels' before the update of end and duration
merged_labels(warped, extended) ==
    LET idx == index_union(warped, extended)
        rows == [i \in idx |->
                    LET l == left_at(warped, i)
                        r == right_at(extended, i)
                    IN  [start |-> l.start, duration_seconds |-> l.duration, end |-> l.end,
                         id |-> r.id, quarterbeats |-> r.quarterbeats, label |-> r.label]]
    IN  Table({"start", "duration_seconds", "end", "id", "quarterbeats", "label"},
              drop_duplicates_start_label(dropna_label(rows)))

\* a mutant: 'extended' drops the rows without a label, as the other modes do
merged_extended_dropna(warped, extended) ==
    LET idx == index_union(warped, extended)
        rows == [i \in idx |->
                    LET l == left_at(warped, i)
                        r == right_at(extended, i)
                    IN  [start |-> l.start, duration_time |-> l.duration, end |-> l.end,
                         id |-> r.id, quarterbeats |-> r.quarterbeats,
                         duration_qb |-> r.duration_qb, midi |-> r.midi, label |-> r.label]]
    IN  Table({"start", "duration_time", "end", "id", "quarterbeats", "duration_qb", "midi",
               "label"}, dropna_label(rows))

\* mode 'extended' before the update of end and duration
merged_extended(warped, extended) ==
    LET idx == index_union(warped, extended)
        rows == [i \in idx |->
                    LET l == left_at(warped, i)
                        r == right_at(extended, i)
                    IN  [start |-> l.start, duration_time |-> l.duration, end |-> l.end,
                         id |-> r.id, quarterbeats |-> r.quarterbeats,
                         duration_qb |-> r.duration_qb, midi |-> r.midi, label |-> r.label]]
    IN  Table({"start", "duration_time", "end", "id", "quarterbeats", "duration_qb", "midi",
               "label"}, rows)

Modes == {"compact", "labels", "extended"}

\* the table align_warped_notes_labels returns, or the error it raises
align_warped_notes_labels(warped, extended, last_end, mode) ==
    IF mode = "compact"
    THEN [kind |-> "table",
          table |-> update_duration_and_end_from_start(merged_compact(warped, extended), last_end)]
    ELSE IF mode = "labels"
    THEN [kind |-> "table",
          table |-> update_duration_and_end_from_start(merged_labels(warped, extended), last_end)]
    ELSE IF mode = "extended"
    THEN [kind |-> "table",
          table |-> update_duration_and_end_from_start(merged_extended(warped, extended), last_end)]
    ELSE [kind |-> "ValueError", table |-> EmptyTable]

\* quarterbeat positions of the scores handed to the merger
Qbs == 0..MaxMergeNotes

\* chord labels of the model's label tables
LabelNames == {"I", "V"}

\* the notes tables: 1..MaxMergeNotes notes sorted by position, each a quarter long
MergeNotes ==
    {Table(NotesCols,
           [i \in 1..Len(qbs) |->
               [id |-> i, quarterbeats |-> qbs[i], duration_qb |-> 1, midi |-> 60]]) :
       qbs \in {q \in SeqsUpTo(Qbs, MaxMergeNotes) :
                   /\ Len(q) >= 1
                   /\ \A i \in 1..(Len(q) - 1) : q[i] <= q[i + 1]}}

\* the labels tables: at most one label per position, sorted by position
MergeLabels ==
    {LET at == SortedSeq({q \in Qbs : f[q] # "none"})
     IN  Table({"quarterbeats", "label"},
               [i \in 1..Len(at) |-> [quarterbeats |-> at[i], label |-> f[at[i]]]]) :
       f \in [Qbs -> LabelNames \cup {"none"}]}

\* the path of the merger's runs
MergePath == << <<0, 0>>, <<100, 50>>, <<200, 150>>, <<500, 300>> >>

IdleMerge ==
    /\ m_notes = EmptyTable
    /\ m_labels = EmptyTable
    /\ m_warped = EmptyTable
    /\ m_extended = EmptyTable
    /\ m_last_end = 0
    /\ m_mode = "none"
    /\ m_result = [kind |-> "none"]
    /\ mpc = "idle"

InitMerge ==
    /\ m_notes \in MergeNotes
    /\ m_labels \in MergeLabels
    /\ m_warped = warp_annotations(corpus_to_df_musical_time(m_notes), MergePath)
    /\ m_extended = align_corpus_notes_and_labels(m_notes, m_labels).table
    \* the audio ends with the last frame of the path
    /\ m_last_end = MergePath[Len(MergePath)][1]
    /\ m_mode \in Modes \cup {"full"}
    /\ m_result = [kind |-> "none"]
    /\ mpc = "call"

AlignWarpedNotesLabels ==
    /\ mpc = "call"
    /\ m_result' = align_warped_notes_labels(m_warped, m_extended, m_last_end, m_mode)
    /\ mpc' = IF m_result'.kind = "table" THEN "returned" ELSE "raised"
    /\ UNCHANGED <<m_notes, m_labels, m_warped, m_extended, m_last_end, m_mode>>
    /\ UNCHANGED notMerge

NextMerge == AlignWarpedNotesLabels

\* ------------------------- calls of the ScoreTimeNormalizer functions (utils.py)

\* which quarterbeats columns a file has
ColumnVariants == {{"quarterbeats"}, {"quarterbeats_playthrough"},
                   {"quarterbeats", "quarterbeats_playthrough"}, {}}

\* by how many quarter notes the expanded position of the model's notes lies
\* behind the plain one (one repeated section)
RepeatLength == MaxMergeNotes + 1

\* a notes file: notes at the given positions with the given lengths, pitches
\* alternating, with the quarterbeats columns of the variant
NormalizerNotes(qbs, durations, variant) ==
    LET full(i) == [id |-> i, quarterbeats |-> qbs[i],
                    quarterbeats_playthrough |-> qbs[i] + RepeatLength,
                    duration_qb |-> durations[i], midi |-> 60 + 2 * (i % 2)]
        columns == {"id", "duration_qb", "midi"} \cup variant
    IN  Table(columns, [i \in 1..Len(qbs) |-> [c \in columns |-> full(i)[c]]])

\* a labels file: labels on the first two positions, with the quarterbeats
\* columns of the variant
NormalizerLabels(variant) ==
    LET full(i) == [quarterbeats |-> i - 1,
                    quarterbeats_playthrough |-> i - 1 + RepeatLength,
                    label |-> IF i = 1 THEN "I" ELSE "V"]
        columns == {"label"} \cup variant
    IN  Table(columns, [i \in 1..2 |-> [c \in columns |-> full(i)[c]]])

IdleNormalizer ==
    /\ n_notes = EmptyTable
    /\ n_labels = EmptyTable
    /\ n_result = [kind |-> "none"]
    /\ npc = "idle"

InitNormalizer ==
    \E n \in 1..MaxNotes :
      \E qbs \in [1..n -> Qbs], durations \in [1..n -> {1, 2}],
         notes_variant \in ColumnVariants,
         labels_variant \in ColumnVariants \ {{"quarterbeats", "quarterbeats_playthrough"}} :
        /\ n_notes = NormalizerNotes(qbs, durations, notes_variant)
        /\ n_labels = NormalizerLabels(labels_variant)
        /\ n_result = [kind |-> "none"]
        /\ npc = "call"

\* get_quarterbeats_column_name(notes_df)
GetQuarterbeatsColumnName ==
    /\ npc = "call"
    /\ n_result' =
          LET name == get_quarterbeats_column_name(n_notes.cols)
          IN  IF name = "ValueError" THEN [kind |-> "ValueError"]
              ELSE [kind |-> "str", value |-> name]
    /\ npc' = "get_quarterbeats_column_name"
    /\ UNCHANGED <<n_notes, n_labels>>
    /\ UNCHANGED notNormalizer

\* corpus_to_df_musical_time(notes_path): the ValueError of
\* get_quarterbeats_column_name leaves the function
CorpusToDfMusicalTime ==
    /\ npc = "call"
    /\ n_result' =
          IF get_quarterbeats_column_name(n_notes.cols) = "ValueError"
          THEN [kind |-> "ValueError"]
          ELSE [kind |-> "table", table |-> corpus_to_df_musical_time(n_notes)]
    /\ npc' = "corpus_to_df_musical_time"
    /\ UNCHANGED <<n_notes, n_labels>>
    /\ UNCHANGED notNormalizer

\* align_corpus_notes_and_labels(notes_path, labels_path)
AlignCorpusNotesAndLabels ==
    /\ npc = "call"
    /\ n_result' = align_corpus_notes_and_labels(n_notes, n_labels)
    /\ npc' = "align_corpus_notes_and_labels"
    /\ UNCHANGED <<n_notes, n_labels>>
    /\ UNCHANGED notNormalizer

NextNormalizer ==
    \/ GetQuarterbeatsColumnName
    \/ CorpusToDfMusicalTime
    \/ AlignCorpusNotesAndLabels

\* ------------------------------------------- align_notes_labels_audio (utils.py)

\* a mutant: the matched notes are divided by the number of unmatched notes
evaluate_matching_by_unmatched(df_original_notes, df_warped_notes) ==
    IF Len(df_original_notes.rows) - Len(df_warped_notes.rows) = 0
    THEN [kind |-> "ZeroDivisionError", score |-> 0]
    ELSE [kind |-> "score",
          score |-> (100 * Len(df_warped_notes.rows))
                        \div (Len(df_original_notes.rows) - Len(df_warped_notes.rows))]

\* len(df_warped_notes) / len(df_original_notes), in percent
evaluate_matching(df_original_notes, df_warped_notes) ==
    IF Len(df_original_notes.rows) = 0
    THEN [kind |-> "ZeroDivisionError", score |-> 0]
    ELSE [kind |-> "score",
          score |-> (100 * Len(df_warped_notes.rows)) \div Len(df_original_notes.rows)]

\* df_annotation_warped[['start', 'end', 'pitch']]
start_end_pitch(warped) ==
    Table({"start", "end", "pitch"},
          [i \in 1..Len(warped.rows) |->
              [start |-> warped.rows[i].start, end |-> warped.rows[i].end,
               pitch |-> warped.rows[i].pitch]])

\* the notes files of the runs: a score of two notes, the same with the 'start'
\* column of an earlier alignment, and one without a quarterbeats column
AlignNotes ==
    LET score == ScoreNotes(<<60, 62>>)
    IN  {score, WithPriorStart(score),
         Table(NotesCols \ {"quarterbeats"},
               <<[id |-> 1, duration_qb |-> 1, midi |-> 60]>>),
         Table(NotesCols, <<>>)}

\* the labels files of the runs: labels on both notes, in the plain and in
\* the playthrough (expanded repeats) variant
AlignLabels ==
    {Table({"quarterbeats", "label"},
           <<[quarterbeats |-> 0, label |-> "I"], [quarterbeats |-> 1, label |-> "V"]>>),
     Table({"quarterbeats_playthrough", "label"},
           <<[quarterbeats_playthrough |-> 0, label |-> "I"]>>)}

IdleAlign ==
    /\ a_notes = EmptyTable
    /\ a_labels = <<>>
    /\ a_mode = "none"
    /\ a_evaluate = FALSE
    /\ a_store = FALSE
    /\ apc = "idle"
    /\ a_df_annotation = EmptyTable
    /\ a_extended = <<>>
    /\ a_audio_duration = 0
    /\ a_wp = <<>>
    /\ a_warped = EmptyTable
    /\ a_aligned_notes = EmptyTable
    /\ a_result = EmptyTable
    /\ a_stored = <<>>
    /\ a_steps = <<>>
    /\ a_error = "none"

InitAlign ==
    /\ a_notes \in AlignNotes
    /\ a_labels \in {<<>>} \cup {<<t>> : t \in AlignLabels}
    /\ a_mode \in Modes \cup {"full"}
    /\ a_evaluate \in BOOLEAN
    /\ a_store \in BOOLEAN
    /\ apc = "prepare"
    /\ a_df_annotation = EmptyTable
    /\ a_extended = <<>>
    /\ a_audio_duration = 0
    /\ a_wp = <<>>
    /\ a_warped = EmptyTable
    /\ a_aligned_notes = EmptyTable
    /\ a_result = EmptyTable
    /\ a_stored = <<>>
    /\ a_steps = <<>>
    /\ a_error = "none"

Raise(e) == apc' = "raised" /\ a_error' = e

\* df_annotation = corpus_to_df_musical_time(notes_path).  For a notes file
\* without rows df_annotation.apply(..., axis=1) is a table, not a column:
\* setting it as the column 'end' raises ValueError or, where pandas lets it
\* pass, leaves an annotation without rows
PrepareAnnotation ==
    /\ apc = "prepare"
    /\ IF get_quarterbeats_column_name(a_notes.cols) = "ValueError"
       THEN Raise("ValueError") /\ UNCHANGED a_df_annotation
       ELSE \/ /\ a_notes.rows = <<>>
               /\ Raise("ValueError")
               /\ UNCHANGED a_df_annotation
            \/ /\ a_df_annotation' = corpus_to_df_musical_time(a_notes)
               /\ apc' = "labels"
               /\ UNCHANGED a_error
    /\ UNCHANGED <<a_notes, a_labels, a_mode, a_evaluate, a_store, a_extended,
                   a_audio_duration, a_wp, a_warped, a_aligned_notes, a_result, a_stored,
                   a_steps>>
    /\ UNCHANGED notAlign

\* if labels_path: df_annotation_extended = align_corpus_notes_and_labels(...)
\* else: mode "labels" is refused
MergeCorpusLabels ==
    /\ apc = "labels"
    /\ IF a_labels # <<>>
       THEN LET merged == align_corpus_notes_and_labels(a_notes, a_labels[1])
            IN  IF merged.kind = "ValueError"
                THEN Raise("ValueError") /\ UNCHANGED a_extended
                ELSE /\ a_extended' = <<merged.table>>
                     /\ apc' = "load_audio"
                     /\ UNCHANGED a_error
       ELSE IF a_mode = "labels"
            THEN Raise("ValueError") /\ UNCHANGED a_extended
            ELSE /\ apc' = "load_audio"
                 /\ UNCHANGED <<a_extended, a_error>>
    /\ UNCHANGED <<a_notes, a_labels, a_mode, a_evaluate, a_store, a_df_annotation,
                   a_audio_duration, a_wp, a_warped, a_aligned_notes, a_result, a_stored,
                   a_steps>>
    /\ UNCHANGED notAlign

\* audio, _ = librosa.load(audio_path, sr=Fs); audio_duration = ...
\* The recording is as long as one of the paths the solver can return.
LoadAudio ==
    /\ apc = "load_audio"
    /\ \E wp \in WarpPaths : a_audio_duration' = wp[Len(wp)][1]
    /\ a_steps' = Append(a_steps, "load_audio")
    /\ apc' = "features"
    /\ UNCHANGED <<a_notes, a_labels, a_mode, a_evaluate, a_store, a_df_annotation,
                   a_extended, a_wp, a_warped, a_aligned_notes, a_result, a_stored, a_error>>
    /\ UNCHANGED notAlign

\* estimate_tuning, get_features_from_audio, get_features_from_annotation,
\* compute_optimal_chroma_shift, shift_chroma_vectors.  An annotation without
\* rows has no last end to size the feature matrix with: the extraction fails
ExtractFeatures ==
    /\ apc = "features"
    /\ a_steps' = Append(a_steps, "features")
    /\ IF a_df_annotation.rows = <<>>
       THEN Raise("ValueError")
       ELSE apc' = "dtw" /\ UNCHANGED a_error
    /\ UNCHANGED <<a_notes, a_labels, a_mode, a_evaluate, a_store, a_df_annotation,
                   a_extended, a_audio_duration, a_wp, a_warped, a_aligned_notes, a_result,
                   a_stored>>
    /\ UNCHANGED notAlign

\* wp = make_path_strictly_monotonic(sync_via_mrmsdtw(...)): a path that ends
\* with the last audio frame
ComputeWarpingPath ==
    /\ apc = "dtw"
    /\ \E wp \in WarpPaths :
          /\ wp[Len(wp)][1] = a_audio_duration
          /\ a_wp' = wp
    /\ a_steps' = Append(a_steps, "dtw")
    /\ apc' = "warp"
    /\ UNCHANGED <<a_notes, a_labels, a_mode, a_evaluate, a_store, a_df_annotation,
                   a_extended, a_audio_duration, a_warped, a_aligned_notes, a_result,
                   a_stored, a_error>>
    /\ UNCHANGED notAlign

\* df_annotation_warped = warp_annotations(df_annotation, wp, feature_rate);
\* if evaluate: evaluate_matching(df_annotation, df_annotation_warped)
WarpAndEvaluate ==
    /\ apc = "warp"
    /\ a_warped' = warp_annotations(a_df_annotation, a_wp)
    /\ IF a_evaluate /\ evaluate_matching(a_df_annotation, a_warped').kind = "ZeroDivisionError"
       THEN Raise("ZeroDivisionError")
       ELSE apc' = "reattach" /\ UNCHANGED a_error
    /\ UNCHANGED <<a_notes, a_labels, a_mode, a_evaluate, a_store, a_df_annotation,
                   a_extended, a_audio_duration, a_wp, a_aligned_notes, a_result, a_stored,
                   a_steps>>
    /\ UNCHANGED notAlign

\* aligned_notes = get_original_notes_warped(notes_path, df_annotation_warped)
Reattach ==
    /\ apc = "reattach"
    /\ LET got == get_original_notes_warped(a_notes, a_warped)
       IN  IF got.kind = "table"
           THEN /\ a_aligned_notes' = got.table
                /\ apc' = "result"
                /\ UNCHANGED a_error
           ELSE Raise(got.kind) /\ UNCHANGED a_aligned_notes
    /\ UNCHANGED <<a_notes, a_labels, a_mode, a_evaluate, a_store, a_df_annotation,
                   a_extended, a_audio_duration, a_wp, a_warped, a_result, a_stored, a_steps>>
    /\ UNCHANGED notAlign

\* the if / elif chain that chooses the result by labels and mode
BuildResult ==
    /\ apc = "result"
    /\ IF a_extended # <<>>
       THEN LET got == align_warped_notes_labels(a_warped, a_extended[1],
                                                 a_audio_duration, a_mode)
            IN  IF got.kind = "table"
                THEN a_result' = got.table /\ apc' = "store" /\ UNCHANGED a_error
                ELSE Raise(got.kind) /\ UNCHANGED a_result
       ELSE IF a_mode = "compact"
       THEN a_result' = start_end_pitch(a_warped) /\ apc' = "store" /\ UNCHANGED a_error
       ELSE IF a_mode = "extended"
       THEN a_result' = a_aligned_notes /\ apc' = "store" /\ UNCHANGED a_error
       ELSE Raise("ValueError") /\ UNCHANGED a_result
    /\ UNCHANGED <<a_notes, a_labels, a_mode, a_evaluate, a_store, a_df_annotation,
                   a_extended, a_audio_duration, a_wp, a_warped, a_aligned_notes, a_stored,
                   a_steps>>
    /\ UNCHANGED notAlign

\* if store: store_and_report_result(result, ...); return
StoreAndReturn ==
    /\ apc = "store"
    /\ a_stored' = IF a_store THEN Append(a_stored, a_result) ELSE a_stored
    /\ apc' = "returned"
    /\ UNCHANGED <<a_notes, a_labels, a_mode, a_evaluate, a_store, a_df_annotation,
                   a_extended, a_audio_duration, a_wp, a_warped, a_aligned_notes, a_result,
                   a_steps, a_error>>
    /\ UNCHANGED notAlign

NextAlign ==
    \/ PrepareAnnotation
    \/ MergeCorpusLabels
    \/ LoadAudio
    \/ ExtractFeatures
    \/ ComputeWarpingPath
    \/ WarpAndEvaluate
    \/ Reattach
    \/ BuildResult
    \/ StoreAndReturn

\* ------------------------------------------------- TimeModel (make_timeline.py)

\* A Fraction is a pair <<numerator, denominator>> with a positive denominator;
\* a time signature "n/d" is the pair <<n, d>>.

\* a mutant: every numerator that is a multiple of 3 gives the threefold beat
ts_beat_size_from_three(ts) ==
    <<IF ts[1] % 3 = 0 THEN 3 ELSE 1, ts[2]>>

\* Fraction(beat_numerator, denominator)
ts_beat_size(ts) ==
    LET numerator == ts[1]
        denominator == ts[2]
        beat_numerator == IF numerator % 3 = 0 /\ numerator > 3 THEN 3 ELSE 1
    IN  <<beat_numerator, denominator>>

\* a mutant: the whole beats of divmod are dropped, first_beat + subbeat is left
onset2beat_exact_subbeat_only(onset, timesig, first_beat) ==
    LET size == ts_beat_size(timesig)
        num == onset[1] * size[2]
        den == onset[2] * size[1]
    IN  <<(num % den) + first_beat * den, den>>

\* onset / size + first_beat as a Fraction: divmod(onset, size) gives beat and
\* remainder, and beat + remainder / size is the quotient onset / size
onset2beat_exact(onset, timesig, first_beat) ==
    LET size == ts_beat_size(timesig)
    IN  <<onset[1] * size[2] + first_beat * onset[2] * size[1], onset[2] * size[1]>>

\* round(float(result), 3) in thousandths: the nearest whole number of
\* thousandths, and the even one of the two when the value lies exactly halfway
\* (exact for values with a power of 2 as denominator, which a float holds
\* exactly; the onsets of the model give no other value that lies halfway)
onset2beat_rounded(onset, timesig, first_beat) ==
    LET x == onset2beat_exact(onset, timesig, first_beat)
        lower == (1000 * x[1]) \div x[2]
        twice_rest == 2 * ((1000 * x[1]) % x[2])
    IN  IF twice_rest < x[2] THEN lower
        ELSE IF twice_rest > x[2] THEN lower + 1
        ELSE IF lower % 2 = 0 THEN lower ELSE lower + 1

\* float.is_integer of a float given in thousandths
float_is_integer(thousandths) == thousandths % 1000 = 0

\* a mutant: the beat is threefold in every measure of more than three units
\* and the count is cut to a whole number
timesig2n_beats_truncating(timesig) ==
    [kind |-> "int",
     value |-> IF timesig[1] > 3 THEN timesig[1] \div 3 ELSE timesig[1]]

\* the beat count of a time signature: onset2beat(Fraction(timesig), timesig,
\* first_beat=0), a ValueError when it is no whole number
timesig2n_beats(timesig) ==
    LET result == onset2beat_exact(timesig, timesig, 0)
    IN  IF result[1] % result[2] = 0
        THEN [kind |-> "int", value |-> result[1] \div result[2]]
        ELSE [kind |-> "ValueError", value |-> 0]

\* ------------------------------------------- TimelineBuilder (make_timeline.py)

\* A measure is identified by <<number, repeat>>: repeat is "" for the column
\* mn and the letter of the pass ("a", "b", ...) for mn_playthrough ("0a").
\* index == 0 for mn, index.str.startswith("0") for mn_playthrough
is_anacrusis(mn) == mn[1] = 0

Max(a, b) == IF a >= b THEN a ELSE b
SetMax(S) == CHOOSE x \in S : \A y \in S : x >= y

\* the distinct measures of a table in order of first appearance
\* (groupby(mn_column, sort=False))
measures_in_order(rows) ==
    LET firsts == SortedSeq({i \in 1..Len(rows) :
                                \A j \in 1..(i - 1) : rows[j].mn # rows[i].mn})
    IN  [k \in 1..Len(firsts) |-> rows[firsts[k]].mn]

rows_of_measure(rows, mn) == SelectSeq(rows, LAMBDA r : r.mn = mn)

\* gpb.timesig.unique()
timesigs_of(rows, mn) == {r.timesig : r \in Range(rows_of_measure(rows, mn))}

\* gpb.beat.unique().map(set)
present_beats(rows, mn) == {Val(r.beat) : r \in Range(rows_of_measure(rows, mn))}

\* a mutant: the highest beat observed is not taken into account
n_expected_beats_timesig_only(rows, mn) ==
    IF is_anacrusis(mn) THEN 0
    ELSE timesig2n_beats(Val(CHOOSE ts \in timesigs_of(rows, mn) : TRUE)).value

\* mn2n_expected_beats: the larger of the time signature's beat count and the
\* highest beat observed, and 0 for the anacrusis
n_expected_beats(rows, mn) ==
    IF is_anacrusis(mn) THEN 0
    ELSE Max(timesig2n_beats(Val(CHOOSE ts \in timesigs_of(rows, mn) : TRUE)).value,
             SetMax(present_beats(rows, mn)))

\* mn2n_missing_beats
n_missing_beats(rows, mn) == n_expected_beats(rows, mn) - Cardinality(present_beats(rows, mn))

\* mn2complete_beatgrid: per measure the beats 1..n in ascending order;
\* explode() turns the empty set of a measure with n = 0 into one row whose
\* beat is missing
complete_beatgrid(rows) ==
    LET mns == measures_in_order(rows)
        of_measure(mn) ==
            LET n == n_expected_beats(rows, mn)
            IN  IF n = 0 THEN <<[mn |-> mn, beat |-> Missing]>>
                ELSE [b \in 1..n |-> [mn |-> mn, beat |-> Some(b)]]
    IN  Flatten([k \in 1..Len(mns) |-> of_measure(mns[k])])

\* pd.merge(mn2complete_beatgrid, tl, how="left", on=[mn_column, "beat"]): every
\* row of the grid with every row of tl of the same measure and beat, or with
\* missing values when there is none
merge_left_on_measure_beat(grid, rows) ==
    LET of_grid(g) ==
            LET matches == SelectSeq(rows, LAMBDA r : r.mn = g.mn /\ r.beat = g.beat)
            IN  IF matches = <<>>
                THEN <<[mn |-> g.mn, beat |-> g.beat, mn_onset |-> Missing,
                        timesig |-> Missing, start |-> Missing]>>
                ELSE matches
    IN  Flatten([k \in 1..Len(grid) |-> of_grid(grid[k])])

\* Series.interpolate(method='linear'): a missing value between two values is
\* filled linearly by row position, missing values after the last value get the
\* last value, missing values before the first value stay missing
interpolate_linear(cells) ==
    LET n == Len(cells)
        valid == {i \in 1..n : ~IsMissing(cells[i])}
        before(k) == {i \in valid : i < k}
        after(k) == {i \in valid : i > k}
        at(k) ==
            IF k \in valid THEN cells[k]
            ELSE IF before(k) = {} THEN Missing
            ELSE LET i == SetMax(before(k))
                 IN  IF after(k) = {} THEN cells[i]
                     ELSE LET j == CHOOSE x \in after(k) : \A y \in after(k) : x <= y
                              a == Val(cells[i])
                              b == Val(cells[j])
                          IN  Some(a + ((b - a) * (k - i)) \div (j - i))
    IN  [k \in 1..n |-> at(k)]

\* the timeline with the missing beats of every measure filled in
interpolate_missing_beats(tl) ==
    LET mns == measures_in_order(tl.rows)
    IN  IF \E k \in 1..Len(mns) : Cardinality(timesigs_of(tl.rows, mns[k])) > 1
        THEN [kind |-> "ValueError", table |-> EmptyTable]
        ELSE IF ~\E k \in 1..Len(mns) : n_missing_beats(tl.rows, mns[k]) > 0
        THEN [kind |-> "table", table |-> tl]
        ELSE LET merged == merge_left_on_measure_beat(complete_beatgrid(tl.rows), tl.rows)
                 starts == interpolate_linear(Column(merged, "start"))
             IN  [kind |-> "table",
                  table |-> Table(tl.cols,
                                  [i \in 1..Len(merged) |->
                                      [merged[i] EXCEPT !.start = starts[i]]])]

\* a mutant: the last row of every (measure, beat) pair is the one kept
drop_duplicates_measure_beat_keep_last(rows) ==
    LET kept == SortedSeq({i \in 1..Len(rows) :
                              \A j \in (i + 1)..Len(rows) :
                                  ~(rows[j].mn = rows[i].mn /\ rows[j].beat = rows[i].beat)})
    IN  [k \in 1..Len(kept) |-> rows[kept[k]]]

\* drop_duplicates(subset=[mn_column, "beat"]): the first row of every
\* (measure, beat) pair
drop_duplicates_measure_beat(rows) ==
    LET kept == SortedSeq({i \in 1..Len(rows) :
                              \A j \in 1..(i - 1) :
                                  ~(rows[j].mn = rows[i].mn /\ rows[j].beat = rows[i].beat)})
    IN  [k \in 1..Len(kept) |-> rows[kept[k]]]

\* the notes that lie on a beat, with their beat number, one per measure and
\* beat: the table aligned_notes2timeline hands to interpolate_missing_beats
downbeats(notes) ==
    LET beat_float(r) == onset2beat_rounded(r.mn_onset, r.timesig, 1)
        on_beat == SelectSeq(notes.rows, LAMBDA r : float_is_integer(beat_float(r)))
        with_beat == [i \in 1..Len(on_beat) |->
                         [mn |-> on_beat[i].mn,
                          beat |-> Some(beat_float(on_beat[i]) \div 1000),
                          mn_onset |-> Some(on_beat[i].mn_onset),
                          timesig |-> Some(on_beat[i].timesig),
                          start |-> Some(on_beat[i].start)]]
    IN  Table({"mn", "beat", "mn_onset", "timesig", "start"},
              drop_duplicates_measure_beat(with_beat))

aligned_notes2timeline(notes) == interpolate_missing_beats(downbeats(notes))

\* real time between the starts of two consecutive notes of the model's
\* scores: a multiple of every distance between two rows of a timeline, so that
\* interpolated starts are whole numbers
TimeUnit == 2 * 2 * 2 * 3 * 3 * 5 * 7 * 11 * 13

\* the time signatures of the model's scores
TimeSigs == {<<2, 4>>, <<3, 4>>}

\* the onsets within a measure (fractions of a whole note) of the model's
\* scores: the three quarters of a 3/4 measure and, off the beat, the second
\* eighth
Onsets == <<<<0, 1>>, <<1, 8>>, <<1, 4>>, <<1, 2>>>>
OnBeat == {i \in 1..Len(Onsets) : Onsets[i][2] # 8}
OffBeat == {i \in 1..Len(Onsets) : Onsets[i][2] = 8}

\* what else a score of the model has: nothing, every first note of a measure
\* doubled (a chord), a note off the beat in every measure, or another time
\* signature on the last note of the score, on the second note of the chord of
\* the last measure, or on the off-beat note of the last measure, or after
\* every measure but the last a further measure whose only note is off the beat
Variants == {"plain", "chords", "offbeat", "changes", "chord_changes", "offbeat_changes",
             "gaps"}

\* the aligned notes of a score: measures first, first + 1, ..., each with the
\* notes at the chosen onsets in ascending order (with "gaps" every other
\* measure has the off-beat note only); starts ascend with the rows
TimelineNotes(first, repeat, ts, chosen, variant) ==
    LET other == CHOOSE timesig \in TimeSigs : timesig # ts
        of_measure(k) ==
            LET at == SortedSeq(IF variant \in {"offbeat", "offbeat_changes"}
                                THEN chosen[k] \cup OffBeat
                                ELSE chosen[k])
                doubled == IF variant \in {"chords", "chord_changes"} /\ Len(at) > 0
                           THEN <<at[1]>> \o at ELSE at
                changed(i) ==
                    /\ k = Len(chosen)
                    /\ \/ variant = "chord_changes" /\ i = 2
                       \/ variant = "offbeat_changes" /\ doubled[i] \in OffBeat
                number == IF variant = "gaps" THEN first + 2 * (k - 1) ELSE first + k - 1
                gap == IF variant = "gaps" /\ k < Len(chosen)
                       THEN [i \in 1..1 |->
                                [mn |-> <<number + 1, repeat>>,
                                 mn_onset |-> Onsets[CHOOSE o \in OffBeat : TRUE],
                                 timesig |-> ts]]
                       ELSE <<>>
            IN  [i \in 1..Len(doubled) |->
                    [mn |-> <<number, repeat>>, mn_onset |-> Onsets[doubled[i]],
                     timesig |-> IF changed(i) THEN other ELSE ts]] \o gap
        score == Flatten([k \in 1..Len(chosen) |-> of_measure(k)])
    IN  Table({"mn", "mn_onset", "timesig", "start"},
              [i \in 1..Len(score) |->
                  [mn |-> score[i].mn, mn_onset |-> score[i].mn_onset,
                   timesig |-> IF variant = "changes" /\ i = Len(score)
                               THEN other
                               ELSE score[i].timesig,
                   start |-> i * TimeUnit]])

IdleTimeline ==
    /\ t_notes = EmptyTable
    /\ t_result = [kind |-> "none"]
    /\ tpc = "idle"

InitTimeline ==
    \E n \in 1..MaxMeasures :
      \E first \in {0, 1}, repeat \in {"", "a"}, ts \in TimeSigs, variant \in Variants,
         chosen \in [1..n -> SUBSET OnBeat] :
        /\ t_notes = TimelineNotes(first, repeat, ts, chosen, variant)
        /\ t_result = [kind |-> "none"]
        /\ tpc = "call"

AlignedNotes2Timeline ==
    /\ tpc = "call"
    /\ t_result' = aligned_notes2timeline(t_notes)
    /\ tpc' = IF t_result'.kind = "table" THEN "returned" ELSE "raised"
    /\ UNCHANGED t_notes
    /\ UNCHANGED notTimeline

NextTimeline == AlignedNotes2Timeline

\* ----------------------------------- calls of the time model (make_timeline.py)

\* the denominators of the time signatures handed to the time model
Denominators == {1, 2, 4, 8}

\* the onsets handed to the time model: on a beat, between two beats, and
\* closer to a beat than half a thousandth of a beat
ModelOnsets == {<<0, 1>>, <<1, 8192>>, <<1, 64>>, <<1, 8>>, <<1, 4>>, <<1, 3>>,
                <<3, 8>>, <<1, 2>>}

IdleTimeModel ==
    /\ tm_timesig = <<1, 1>>
    /\ tm_onsets = <<>>
    /\ tm_result = [kind |-> "none"]
    /\ tmpc = "idle"

InitTimeModel ==
    \E n \in 1..MaxNumerator, d \in Denominators, o1 \in ModelOnsets, o2 \in ModelOnsets :
        /\ tm_timesig = <<n, d>>
        /\ tm_onsets = <<o1, o2>>
        /\ tm_result = [kind |-> "none"]
        /\ tmpc = "call"

\* ts_beat_size(ts)
TsBeatSize ==
    /\ tmpc = "call"
    /\ tm_result' = [kind |-> "Fraction", value |-> ts_beat_size(tm_timesig)]
    /\ tmpc' = "ts_beat_size"
    /\ UNCHANGED <<tm_timesig, tm_onsets>>
    /\ UNCHANGED notTimeModel

\* onset2beat(onset, timesig, beat_decimals, first_beat=1) of both onsets and of
\* onset 0, as a Fraction (beat_decimals=None) and rounded (beat_decimals=3)
Onset2Beat ==
    /\ tmpc = "call"
    /\ tm_result' =
          [kind |-> "beats",
           exact |-> [i \in 1..2 |-> onset2beat_exact(tm_onsets[i], tm_timesig, 1)],
           rounded |-> [i \in 1..2 |-> onset2beat_rounded(tm_onsets[i], tm_timesig, 1)],
           exact_at_zero |-> onset2beat_exact(<<0, 1>>, tm_timesig, 1),
           rounded_at_zero |-> onset2beat_rounded(<<0, 1>>, tm_timesig, 1)]
    /\ tmpc' = "onset2beat"
    /\ UNCHANGED <<tm_timesig, tm_onsets>>
    /\ UNCHANGED notTimeModel

\* timesig2n_beats(timesig)
Timesig2NBeats ==
    /\ tmpc = "call"
    /\ tm_result' = timesig2n_beats(tm_timesig)
    /\ tmpc' = "timesig2n_beats"
    /\ UNCHANGED <<tm_timesig, tm_onsets>>
    /\ UNCHANGED notTimeModel

\* the downbeat mask of aligned_notes2timeline for a single note at the first
\* onset: the rows that are left of a table of that one note
DownbeatMask ==
    /\ tmpc = "call"
    /\ tm_result' =
          [kind |-> "rows",
           rows |-> downbeats(Table({"mn", "mn_onset", "timesig", "start"},
                                    <<[mn |-> <<1, "">>, mn_onset |-> tm_onsets[1],
                                       timesig |-> tm_timesig, start |-> TimeUnit]>>)).rows]
    /\ tmpc' = "downbeat_mask"
    /\ UNCHANGED <<tm_timesig, tm_onsets>>
    /\ UNCHANGED notTimeModel

NextTimeModel ==
    \/ TsBeatSize
    \/ Onset2Beat
    \/ Timesig2NBeats
    \/ DownbeatMask

\* --------------------------------------- aligned_notes2qb_warp_map (make_timeline.py)

\* a mutant: the last row of every key is kept
last_of_each_key(series) ==
    LET kept == SortedSeq({i \in 1..Len(series) :
                              \A j \in (i + 1)..Len(series) : series[j].key # series[i].key})
    IN  [k \in 1..Len(kept) |-> series[kept[k]]]

\* index.duplicated(keep='first') removed: of the rows of a series of
\* [key, value] the first one of every key, in the order of the series
first_of_each_key(series) ==
    LET kept == SortedSeq({i \in 1..Len(series) :
                              \A j \in 1..(i - 1) : series[j].key # series[i].key})
    IN  [k \in 1..Len(kept) |-> series[kept[k]]]

\* the warp map: per quarterbeat position the real time of the first note that
\* starts there and, for positions where no note starts, of the first note
\* that ends there, in ascending order of position; the column of the
\* positions is named qb here whatever qb_column is.  duration is a Fraction of
\* a whole note, duration * 4 a number of quarter notes
aligned_notes2qb_warp_map(aligned_notes) ==
    LET qb_column == get_quarterbeats_column_name(aligned_notes.cols)
        rows == aligned_notes.rows
        start_instants == [i \in 1..Len(rows) |->
                              [key |-> rows[i][qb_column], value |-> rows[i].start]]
        end_instants == [i \in 1..Len(rows) |->
                            [key |-> rows[i][qb_column]
                                        + (rows[i].duration[1] * 4) \div rows[i].duration[2],
                             value |-> rows[i].end]]
        unique_start_instants == first_of_each_key(start_instants)
        unique_end_instants == first_of_each_key(end_instants)
        start_keys == {unique_start_instants[i].key : i \in 1..Len(unique_start_instants)}
        \* unique_end_instants.loc[only_in_ends] appended (nothing when there is none)
        warp_map_values ==
            unique_start_instants
                \o SelectSeq(unique_end_instants, LAMBDA e : e.key \notin start_keys)
        \* sort_index(): the keys are distinct
        keys == SortedSeq({warp_map_values[i].key : i \in 1..Len(warp_map_values)})
        at(k) == CHOOSE i \in 1..Len(warp_map_values) : warp_map_values[i].key = k
    IN  [i \in 1..Len(keys) |->
            [qb |-> keys[i], seconds |-> warp_map_values[at(keys[i])].value]]

\* the lengths of the model's notes as Fractions of a whole note: a grace note,
\* a quarter and a half note
NoteDurations == {<<0, 1>>, <<1, 4>>, <<1, 2>>}

\* an aligned notes table: notes at the given positions and of the given
\* lengths; every note has its own start and end in the recording, as in a
\* file that was aligned before
WarpMapNotes(qbs, durations) ==
    Table({"quarterbeats", "duration", "start", "end"},
          [i \in 1..Len(qbs) |->
              [quarterbeats |-> qbs[i], duration |-> durations[i],
               start |-> 2 * i * feature_rate, end |-> (2 * i + 1) * feature_rate]])

IdleWarpMap ==
    /\ w_notes = EmptyTable
    /\ w_result = <<>>
    /\ wmpc = "idle"

InitWarpMap ==
    \E n \in 1..MaxNotes :
      \E qbs \in [1..n -> Qbs], durations \in [1..n -> NoteDurations] :
        /\ w_notes = WarpMapNotes(qbs, durations)
        /\ w_result = <<>>
        /\ wmpc = "call"

AlignedNotes2QbWarpMap ==
    /\ wmpc = "call"
    /\ w_result' = aligned_notes2qb_warp_map(w_notes)
    /\ wmpc' = "returned"
    /\ UNCHANGED w_notes
    /\ UNCHANGED notWarpMap

NextWarpMap == AlignedNotes2QbWarpMap

\* ------------------------------------------- aligned_harmonies2tilia_keys (aligner.py)

RECURSIVE make_adjacency_groups(_)
\* the number of the group of every row: a new group starts where the value
\* differs from the value of the row before
make_adjacency_groups(values) ==
    IF values = <<>> THEN <<>>
    ELSE LET n == Len(values)
             before == make_adjacency_groups(SubSeq(values, 1, n - 1))
         IN  IF n = 1 THEN <<1>>
             ELSE Append(before,
                         IF values[n] = values[n - 1] THEN before[n - 1] ELSE before[n - 1] + 1)

\* the first row of every group, in row order
condense_dataframe_by_groups(t, group_keys) ==
    LET firsts == SortedSeq({i \in 1..Len(t.rows) :
                                \A j \in 1..(i - 1) : group_keys[j] # group_keys[i]})
    IN  Table(t.cols, [k \in 1..Len(firsts) |-> t.rows[firsts[k]]])

\* Series.max(): the largest of the values that are not missing
series_max(cells) == SetMax({Val(cells[i]) : i \in {j \in 1..Len(cells) : ~IsMissing(cells[j])}})

\* the key spans: the rows of the local keys with end and duration chained from
\* the starts, the label renamed to annotation_label and the local key to label
aligned_harmonies2tilia_keys(aligned_harmonies) ==
    LET group_keys == make_adjacency_groups(Column(aligned_harmonies.rows, "localkey"))
        localkeys == condense_dataframe_by_groups(aligned_harmonies, group_keys)
        updated == update_duration_and_end_from_start(
                       localkeys, series_max(Column(aligned_harmonies.rows, "end")))
    IN  Table((aligned_harmonies.cols \ {"localkey"}) \cup {"annotation_label", "level", "color"},
              [i \in 1..Len(updated.rows) |->
                  [id |-> updated.rows[i].id,
                   start |-> updated.rows[i].start,
                   duration_seconds |-> updated.rows[i].duration_seconds,
                   end |-> updated.rows[i].end,
                   annotation_label |-> updated.rows[i].label,
                   label |-> updated.rows[i].localkey,
                   level |-> 1,
                   color |-> "#A78BFA"]])

\* the local keys of the model's pieces
LocalKeys == {"C", "G"}

\* a table of aligned harmony labels as align_warped_notes_labels returns it in
\* mode 'labels': one row per label with its local key, the starts ascending,
\* the last `unmatched` rows without a start (labels whose row of the merged
\* notes and labels has no row of the warped notes), end and duration chained
\* by update_duration_and_end_from_start with the duration of the recording
AlignedHarmonies(localkeys, unmatched, duration) ==
    LET n == Len(localkeys)
    IN  update_duration_and_end_from_start(
            Table({"id", "start", "duration_seconds", "end", "label", "localkey"},
                  [i \in 1..n |->
                      [id |-> i,
                       start |-> IF i <= n - unmatched THEN Some(i * feature_rate) ELSE Missing,
                       duration_seconds |-> Missing,
                       end |-> Missing,
                       label |-> i,
                       localkey |-> localkeys[i]]]),
            duration)

IdleKeys ==
    /\ k_harmonies = EmptyTable
    /\ k_duration = 0
    /\ k_result = EmptyTable
    /\ kpc = "idle"

InitKeys ==
    \E n \in 1..MaxHarmonies :
      \E localkeys \in [1..n -> LocalKeys], unmatched \in 0..(n - 1), rest \in 1..2 :
        /\ k_duration = (n + rest) * feature_rate
        /\ k_harmonies = AlignedHarmonies(localkeys, unmatched, k_duration)
        /\ k_result = EmptyTable
        /\ kpc = "call"

AlignedHarmonies2TiliaKeys ==
    /\ kpc = "call"
    /\ k_result' = aligned_harmonies2tilia_keys(k_harmonies)
    /\ kpc' = "returned"
    /\ UNCHANGED <<k_harmonies, k_duration>>
    /\ UNCHANGED notKeys

NextKeys == AlignedHarmonies2TiliaKeys

\* ------------------------------------------------------------ batch_process

\* one row of the batch CSV.  A cell is "str" (a path) or "nan" (an empty CSV
\* cell, which pandas reads as the float NaN); alignError says whether
\* align_and_maybe_timeline raises an Exception for this row.
JobRows == [name : {"str", "nan"}, audio : {"str", "nan"}, notes : {"str", "nan"},
            alignError : BOOLEAN]

\* output_path of a row before os.path.abspath: a string, or None
output_path_is_none(job) ==
    IF has_names /\ job.name # "nan"
    THEN FALSE                      \* row.name, possibly joined to store_path
    ELSE store_path = "none"        \* output_path = store_path

\* os.path.abspath raises TypeError for None and for a float
resolve_raises(job) ==
    \/ output_path_is_none(job)
    \/ job.audio = "nan"
    \/ job.notes = "nan"

IdleBatch ==
    /\ mapping = <<>>
    /\ store_path = "none"
    /\ has_names = FALSE
    /\ row = 0
    /\ bpc = "idle"
    /\ visited = <<>>
    /\ attempted = <<>>
    /\ reported = <<>>

InitBatch ==
    /\ has_names \in BOOLEAN
    /\ store_path \in {"none", "dir"}
    /\ mapping \in SeqsUpTo(JobRows, MaxJobs)
    \* without a "name" column no row has a name
    /\ has_names \/ \A i \in 1..Len(mapping) : mapping[i].name = "nan"
    /\ row = 1
    /\ bpc = "resolve"
    /\ visited = <<>>
    /\ attempted = <<>>
    /\ reported = <<>>

\* the loop body up to the try statement: the paths of the row are resolved
ResolvePaths ==
    /\ bpc = "resolve"
    /\ row <= Len(mapping)
    /\ ~resolve_raises(mapping[row])
    /\ visited' = Append(visited, row)
    /\ bpc' = "align"
    /\ UNCHANGED <<mapping, store_path, has_names, row, attempted, reported>>
    /\ UNCHANGED notBatch

\* os.path.abspath raises outside the try statement: the exception leaves
\* batch_process
ResolvePathsRaises ==
    /\ bpc = "resolve"
    /\ row <= Len(mapping)
    /\ resolve_raises(mapping[row])
    /\ visited' = Append(visited, row)
    /\ bpc' = "crashed"
    /\ UNCHANGED <<mapping, store_path, has_names, row, attempted, reported>>
    /\ UNCHANGED notBatch

\* try: align_and_maybe_timeline(...) returns
AlignItem ==
    /\ bpc = "align"
    /\ ~mapping[row].alignError
    /\ attempted' = Append(attempted, row)
    /\ row' = row + 1
    /\ bpc' = "resolve"
    /\ UNCHANGED <<mapping, store_path, has_names, visited, reported>>
    /\ UNCHANGED notBatch

\* try: align_and_maybe_timeline(...) raises; except Exception: print
AlignItemCaught ==
    /\ bpc = "align"
    /\ mapping[row].alignError
    /\ attempted' = Append(attempted, row)
    /\ reported' = Append(reported, row)
    /\ row' = row + 1
    /\ bpc' = "resolve"
    /\ UNCHANGED <<mapping, store_path, has_names, visited>>
    /\ UNCHANGED notBatch

\* the iterator is exhausted
BatchEnd ==
    /\ bpc = "resolve"
    /\ row > Len(mapping)
    /\ bpc' = "done"
    /\ UNCHANGED <<mapping, store_path, has_names, row, visited, attempted, reported>>
    /\ UNCHANGED notBatch

NextBatch ==
    \/ ResolvePaths
    \/ ResolvePathsRaises
    \/ AlignItem
    \/ AlignItemCaught
    \/ BatchEnd

\* ------------------------------------------------- calls of warp_annotations

\* the positions (quarterbeats) and lengths (quarter notes) of the events of
\* the model's annotations; the last positions lie beyond the end of the
\* shorter warping path
EventQbs == 0..5
EventDurations == {0, 1, 2}

\* the notes table of an annotation
EventNotes(qbs, durations) ==
    Table(NotesCols,
          [i \in 1..Len(qbs) |->
              [id |-> i, quarterbeats |-> qbs[i], duration_qb |-> durations[i],
               midi |-> CHOOSE p \in Pitches : TRUE]])

IdleWarpAnnotations ==
    /\ wa_annotation = EmptyTable
    /\ wa_path = <<>>
    /\ wa_result = EmptyTable
    /\ wapc = "idle"

InitWarpAnnotations ==
    \E n \in 1..MaxEvents :
      \E qbs \in [1..n -> EventQbs], durations \in [1..n -> EventDurations],
         wp \in WarpPaths :
        /\ wa_annotation = corpus_to_df_musical_time(EventNotes(qbs, durations))
        /\ wa_path = wp
        /\ wa_result = EmptyTable
        /\ wapc = "call"

WarpAnnotations ==
    /\ wapc = "call"
    /\ wa_result' = warp_annotations(wa_annotation, wa_path)
    /\ wapc' = "returned"
    /\ UNCHANGED <<wa_annotation, wa_path>>
    /\ UNCHANGED notWarpAnnotations

NextWarpAnnotations == WarpAnnotations

\* ------------------------------------- align_and_maybe_timeline: exports (aligner.py)

\* DataFrame.sort_values("time"): ascending, rows without a time last, rows of
\* equal time in their order
sort_values_time(rows) ==
    LET n == Len(rows)
        before(j, i) ==
            IF IsMissing(rows[j].time) THEN IsMissing(rows[i].time) /\ j < i
            ELSE IF IsMissing(rows[i].time) THEN TRUE
            ELSE \/ Val(rows[j].time) < Val(rows[i].time)
                 \/ Val(rows[j].time) = Val(rows[i].time) /\ j < i
        rank(i) == Cardinality({j \in 1..n : before(j, i)}) + 1
    IN  [k \in 1..n |-> rows[CHOOSE i \in 1..n : rank(i) = k]]

\* the timeline as TiLiA beat grid: time, measure number and whether the beat
\* is the first of its measure and, unless the minimal column set is asked
\* for, the beat and (for expanded repeats) the measure with its repeat
aligned_beats2tilia_format(aligned_beats, minimal_column_set) ==
    LET data(r) ==
            LET minimal == [time |-> r.start, measure |-> r.mn[1],
                            is_first_in_measure |-> r.beat = Some(1)]
            IN  IF minimal_column_set THEN minimal
                ELSE IF r.mn[2] = "" THEN minimal @@ [beat |-> r.beat]
                ELSE minimal @@ [beat |-> r.beat, mn_playthrough |-> r.mn]
    IN  sort_values_time([i \in 1..Len(aligned_beats.rows) |-> data(aligned_beats.rows[i])])

\* the beat grid from the aligned notes: the timeline in the minimal
\* three-column form
aligned_notes2tilia_beatgrid(notes) ==
    LET timeline == aligned_notes2timeline(notes)
    IN  IF timeline.kind = "ValueError" THEN [kind |-> "ValueError", rows |-> <<>>]
        ELSE [kind |-> "table", rows |-> aligned_beats2tilia_format(timeline.table, TRUE)]

\* the rows of the harmony labels that have a cadence, as point events
tilia_cadences(aligned_harmonies) ==
    LET with_cadence == SelectSeq(aligned_harmonies.rows, LAMBDA r : ~IsMissing(r.cadence))
    IN  [i \in 1..Len(with_cadence) |->
            [time |-> with_cadence[i].start, label |-> with_cadence[i].cadence]]

\* the aligned notes of the model's pieces: a score in 2/4 with, per measure,
\* a note on the first beat or on both beats, every note a quarter long; with
\* "changes" the last note has another time signature
ExportChoices == {{1}, {1, 3}}
ExportNotes(chosen, variant) ==
    LET t == TimelineNotes(1, "", <<2, 4>>, chosen, variant)
    IN  Table(t.cols \cup {"quarterbeats", "duration", "end"},
              [i \in 1..Len(t.rows) |->
                  t.rows[i] @@ [quarterbeats |-> i - 1, duration |-> <<1, 4>>,
                                end |-> t.rows[i].start + TimeUnit]])

\* the aligned harmony labels of the model's pieces: two labels in different
\* local keys, the second with a cadence or not
ExportHarmonies(cadence) ==
    LET t == AlignedHarmonies(<<"C", "G">>, 0, 3 * feature_rate)
    IN  Table(t.cols \cup {"cadence"},
              [i \in 1..Len(t.rows) |->
                  t.rows[i] @@ [cadence |-> IF cadence /\ i = 2 THEN Some("PAC") ELSE Missing]])

IdleExports ==
    /\ e_notes = EmptyTable
    /\ e_labels = FALSE
    /\ e_harmonies = EmptyTable
    /\ e_timeline = FALSE
    /\ e_tilia = FALSE
    /\ e_warp_map = FALSE
    /\ e_beatgrid = <<>>
    /\ e_written = <<>>
    /\ e_error = "none"
    /\ epc = "idle"

\* align_notes_labels_audio has returned
InitExports ==
    \E n \in 1..MaxMeasures :
      \E chosen \in [1..n -> ExportChoices], variant \in {"plain", "changes"},
         cadence \in BOOLEAN :
        /\ e_notes = ExportNotes(chosen, variant)
        /\ e_labels \in BOOLEAN
        /\ e_harmonies = IF e_labels THEN ExportHarmonies(cadence) ELSE EmptyTable
        /\ e_timeline \in BOOLEAN
        /\ e_tilia \in BOOLEAN
        /\ e_warp_map \in BOOLEAN
        /\ e_beatgrid = <<>>
        /\ e_written = <<>>
        /\ e_error = "none"
        /\ epc = "exports"

Stored(suffix, table) == [suffix |-> suffix, table |-> table]

\* if timeline + tilia + warp_map == 0: return
ReturnWithoutExports ==
    /\ epc = "exports"
    /\ ~(e_timeline \/ e_tilia \/ e_warp_map)
    /\ epc' = "returned"
    /\ UNCHANGED <<e_notes, e_labels, e_harmonies, e_timeline, e_tilia, e_warp_map,
                   e_beatgrid, e_written, e_error>>
    /\ UNCHANGED notExports

\* store_path and original_path are worked out
ResolveStorePath ==
    /\ epc = "exports"
    /\ e_timeline \/ e_tilia \/ e_warp_map
    /\ epc' = "timeline"
    /\ UNCHANGED <<e_notes, e_labels, e_harmonies, e_timeline, e_tilia, e_warp_map,
                   e_beatgrid, e_written, e_error>>
    /\ UNCHANGED notExports

\* if timeline: ... elif tilia: ...
ExportTimeline ==
    /\ epc = "timeline"
    /\ IF e_timeline
       THEN LET timeline == aligned_notes2timeline(e_notes)
            IN  IF timeline.kind = "ValueError"
                THEN /\ epc' = "raised"
                     /\ e_error' = "ValueError"
                     /\ UNCHANGED <<e_written, e_beatgrid>>
                ELSE /\ e_written' = Append(e_written, Stored(".timeline.csv", timeline.table.rows))
                     /\ e_beatgrid' = IF e_tilia
                                      THEN aligned_beats2tilia_format(timeline.table, FALSE)
                                      ELSE e_beatgrid
                     /\ epc' = "tilia"
                     /\ UNCHANGED e_error
       ELSE IF e_tilia
       THEN LET tilia_beatgrid == aligned_notes2tilia_beatgrid(e_notes)
            IN  IF tilia_beatgrid.kind = "ValueError"
                THEN /\ epc' = "raised"
                     /\ e_error' = "ValueError"
                     /\ UNCHANGED <<e_written, e_beatgrid>>
                ELSE /\ e_beatgrid' = tilia_beatgrid.rows
                     /\ epc' = "tilia"
                     /\ UNCHANGED <<e_written, e_error>>
       ELSE /\ epc' = "tilia"
            /\ UNCHANGED <<e_written, e_beatgrid, e_error>>
    /\ UNCHANGED <<e_notes, e_labels, e_harmonies, e_timeline, e_tilia, e_warp_map>>
    /\ UNCHANGED notExports

\* if tilia: the beat grid and, with labels, the keys and the cadences
ExportTilia ==
    /\ epc = "tilia"
    /\ e_written' =
          IF ~e_tilia THEN e_written
          ELSE e_written
                 \o <<Stored(".beatgrid.csv", e_beatgrid)>>
                 \o (IF ~e_labels THEN <<>>
                     ELSE <<Stored(".keys.csv", aligned_harmonies2tilia_keys(e_harmonies).rows)>>
                            \o (IF tilia_cadences(e_harmonies) = <<>> THEN <<>>
                                ELSE <<Stored(".cadences.csv", tilia_cadences(e_harmonies))>>))
    /\ epc' = "warp_map"
    /\ UNCHANGED <<e_notes, e_labels, e_harmonies, e_timeline, e_tilia, e_warp_map,
                   e_beatgrid, e_error>>
    /\ UNCHANGED notExports

\* if warp_map: ...
ExportWarpMap ==
    /\ epc = "warp_map"
    /\ e_written' =
          IF e_warp_map
          THEN Append(e_written,
                      Stored(".quarters2seconds.csv", aligned_notes2qb_warp_map(e_notes)))
          ELSE e_written
    /\ epc' = "returned"
    /\ UNCHANGED <<e_notes, e_labels, e_harmonies, e_timeline, e_tilia, e_warp_map,
                   e_beatgrid, e_error>>
    /\ UNCHANGED notExports

NextExports ==
    \/ ReturnWithoutExports
    \/ ResolveStorePath
    \/ ExportTimeline
    \/ ExportTilia
    \/ ExportWarpMap

\* --------------------------- the jobs of a batch and the @cache of make_timeline.py

RECURSIVE gcd(_, _)
gcd(a, b) == IF b = 0 THEN a ELSE gcd(b, a % b)

\* Fraction(timesig): the time signature as a Fraction in lowest terms
Fraction(timesig) == <<timesig[1] \div gcd(timesig[1], timesig[2]),
                       timesig[2] \div gcd(timesig[1], timesig[2])>>

\* the key functools.cache files a call of onset2beat under: its arguments
\* (beat_decimals None is Missing)
o2b_key(onset, timesig, beat_decimals, first_beat) ==
    <<onset, timesig, beat_decimals, first_beat>>

\* the calls of onset2beat a job makes: one per note from aligned_notes2timeline
\* (beat_decimals=3, first_beat=1) and one per time signature from
\* timesig2n_beats (first_beat=0)
o2b_calls(item) ==
    {o2b_key(item.onsets[i], item.timesig, Some(3), 1) : i \in 1..Len(item.onsets)}
        \cup {o2b_key(Fraction(item.timesig), item.timesig, Missing, 0)}

\* ts_beat_size behind @cache: the stored value when the time signature was
\* seen before, the computed one otherwise
cached_ts_beat_size(ts_cache, ts) ==
    IF ts \in DOMAIN ts_cache THEN ts_cache[ts] ELSE ts_beat_size(ts)

\* the body of onset2beat with the beat size it got from ts_beat_size: a
\* Fraction, or thousandths when beat_decimals is 3
onset2beat_body(size, key) ==
    LET onset == key[1]
        first_beat == key[4]
        x == <<onset[1] * size[2] + first_beat * onset[2] * size[1], onset[2] * size[1]>>
        lower == (1000 * x[1]) \div x[2]
        twice_rest == 2 * ((1000 * x[1]) % x[2])
    IN  IF IsMissing(key[3]) THEN x
        ELSE IF twice_rest < x[2] THEN <<lower>>
        ELSE IF twice_rest > x[2] THEN <<lower + 1>>
        ELSE IF lower % 2 = 0 THEN <<lower>> ELSE <<lower + 1>>

\* onset2beat behind @cache
cached_onset2beat(o2b_cache, ts_cache, key) ==
    IF key \in DOMAIN o2b_cache THEN o2b_cache[key]
    ELSE onset2beat_body(cached_ts_beat_size(ts_cache, key[2]), key)

\* the caches after a job: the calls that missed are stored
o2b_cache_after(o2b_cache, ts_cache, item) ==
    [key \in DOMAIN o2b_cache \cup o2b_calls(item) |->
        cached_onset2beat(o2b_cache, ts_cache, key)]
ts_cache_after(o2b_cache, ts_cache, item) ==
    LET missed == {key[2] : key \in o2b_calls(item) \ DOMAIN o2b_cache}
    IN  [ts \in DOMAIN ts_cache \cup missed |-> cached_ts_beat_size(ts_cache, ts)]

\* what a job computes with the help of the cached functions: the beat of
\* every note and the beat count of the time signature
job_output(o2b_cache, ts_cache, item) ==
    [kind |-> "output",
     beats |-> [i \in 1..Len(item.onsets) |->
                   cached_onset2beat(o2b_cache, ts_cache,
                                     o2b_key(item.onsets[i], item.timesig, Some(3), 1))],
     n_beats |-> cached_onset2beat(o2b_cache, ts_cache,
                                   o2b_key(Fraction(item.timesig), item.timesig, Missing, 0))]
NoOutput == [kind |-> "none", beats |-> <<>>, n_beats |-> <<>>]

EmptyCache == [key \in {} |-> <<>>]

\* the rows of the model's batches: the audio cell is a path or empty, the
\* notes are in 6/8 or 3/4 (a bar of the same length, another beat size)
JobTimeSigs == {<<6, 8>>, <<3, 4>>}
JobOnsets == {<< <<0, 1>> >>, << <<0, 1>>, <<3, 8>> >>, << <<1, 4>> >>}
JobItems == [audio : {"str", "nan"}, timesig : JobTimeSigs, onsets : JobOnsets]

IdleJobs ==
    /\ jb_items = <<>>
    /\ jb_row = 0
    /\ jb_ts_cache = EmptyCache
    /\ jb_o2b_cache = EmptyCache
    /\ jb_outputs = <<>>
    /\ jbpc = "idle"

InitJobs ==
    \E n \in 1..MaxJobs :
      \E items \in [1..n -> JobItems] :
        /\ jb_items = items
        /\ jb_row = 1
        /\ jb_ts_cache = EmptyCache
        /\ jb_o2b_cache = EmptyCache
        /\ jb_outputs = [i \in 1..n |-> NoOutput]
        /\ jbpc = "resolve"

\* os.path.abspath of the paths of the row, outside the try statement
JobResolvePaths ==
    /\ jbpc = "resolve"
    /\ jbpc' = IF jb_items[jb_row].audio = "nan" THEN "crashed" ELSE "align"
    /\ UNCHANGED <<jb_items, jb_row, jb_ts_cache, jb_o2b_cache, jb_outputs>>
    /\ UNCHANGED notJobs

\* align_and_maybe_timeline for the row, and on to the next row
JobAlign ==
    /\ jbpc = "align"
    /\ jb_outputs' = [jb_outputs EXCEPT
                          ![jb_row] = job_output(jb_o2b_cache, jb_ts_cache, jb_items[jb_row])]
    /\ jb_o2b_cache' = o2b_cache_after(jb_o2b_cache, jb_ts_cache, jb_items[jb_row])
    /\ jb_ts_cache' = ts_cache_after(jb_o2b_cache, jb_ts_cache, jb_items[jb_row])
    /\ jb_row' = jb_row + 1
    /\ jbpc' = IF jb_row = Len(jb_items) THEN "done" ELSE "resolve"
    /\ UNCHANGED jb_items
    /\ UNCHANGED notJobs

NextJobs ==
    \/ JobResolvePaths
    \/ JobAlign

\* ------------------------------------------------------------ specifications

InitSpecBatch ==
    /\ InitBatch
    /\ IdleWarped
    /\ IdleMerge
    /\ IdleAlign
    /\ IdleTimeline
    /\ IdleTimeModel
    /\ IdleNormalizer
    /\ IdleWarpMap
    /\ IdleKeys
    /\ IdleWarpAnnotations
    /\ IdleExports
    /\ IdleJobs

SpecBatch == InitSpecBatch /\ [][NextBatch]_vars

InitSpecWarped ==
    /\ InitWarped
    /\ IdleBatch
    /\ IdleMerge
    /\ IdleAlign
    /\ IdleTimeline
    /\ IdleTimeModel
    /\ IdleNormalizer
    /\ IdleWarpMap
    /\ IdleKeys
    /\ IdleWarpAnnotations
    /\ IdleExports
    /\ IdleJobs

SpecWarped == InitSpecWarped /\ [][NextWarped]_vars

InitSpecMerge ==
    /\ InitMerge
    /\ IdleBatch
    /\ IdleWarped
    /\ IdleAlign
    /\ IdleTimeline
    /\ IdleTimeModel
    /\ IdleNormalizer
    /\ IdleWarpMap
    /\ IdleKeys
    /\ IdleWarpAnnotations
    /\ IdleExports
    /\ IdleJobs

SpecMerge == InitSpecMerge /\ [][NextMerge]_vars

InitSpecAlign ==
    /\ InitAlign
    /\ IdleBatch
    /\ IdleWarped
    /\ IdleMerge
    /\ IdleTimeline
    /\ IdleTimeModel
    /\ IdleNormalizer
    /\ IdleWarpMap
    /\ IdleKeys
    /\ IdleWarpAnnotations
    /\ IdleExports
    /\ IdleJobs

SpecAlign == InitSpecAlign /\ [][NextAlign]_vars

InitSpecTimeline ==
    /\ InitTimeline
    /\ IdleBatch
    /\ IdleWarped
    /\ IdleMerge
    /\ IdleAlign
    /\ IdleTimeModel
    /\ IdleNormalizer
    /\ IdleWarpMap
    /\ IdleKeys
    /\ IdleWarpAnnotations
    /\ IdleExports
    /\ IdleJobs

SpecTimeline == InitSpecTimeline /\ [][NextTimeline]_vars

InitSpecTimeModel ==
    /\ InitTimeModel
    /\ IdleBatch
    /\ IdleWarped
    /\ IdleMerge
    /\ IdleAlign
    /\ IdleTimeline
    /\ IdleNormalizer
    /\ IdleWarpMap
    /\ IdleKeys
    /\ IdleWarpAnnotations
    /\ IdleExports
    /\ IdleJobs

SpecTimeModel == InitSpecTimeModel /\ [][NextTimeModel]_vars

InitSpecNormalizer ==
    /\ InitNormalizer
    /\ IdleBatch
    /\ IdleWarped
    /\ IdleMerge
    /\ IdleAlign
    /\ IdleTimeline
    /\ IdleTimeModel
    /\ IdleWarpMap
    /\ IdleKeys
    /\ IdleWarpAnnotations
    /\ IdleExports
    /\ IdleJobs

SpecNormalizer == InitSpecNormalizer /\ [][NextNormalizer]_vars

InitSpecWarpMap ==
    /\ InitWarpMap
    /\ IdleBatch
    /\ IdleWarped
    /\ IdleMerge
    /\ IdleAlign
    /\ IdleTimeline
    /\ IdleTimeModel
    /\ IdleNormalizer
    /\ IdleKeys
    /\ IdleWarpAnnotations
    /\ IdleExports
    /\ IdleJobs

SpecWarpMap == InitSpecWarpMap /\ [][NextWarpMap]_vars

InitSpecKeys ==
    /\ InitKeys
    /\ IdleBatch
    /\ IdleWarped
    /\ IdleMerge
    /\ IdleAlign
    /\ IdleTimeline
    /\ IdleTimeModel
    /\ IdleNormalizer
    /\ IdleWarpMap
    /\ IdleWarpAnnotations
    /\ IdleExports
    /\ IdleJobs

SpecKeys == InitSpecKeys /\ [][NextKeys]_vars

InitSpecWarpAnnotations ==
    /\ InitWarpAnnotations
    /\ IdleBatch
    /\ IdleWarped
    /\ IdleMerge
    /\ IdleAlign
    /\ IdleTimeline
    /\ IdleTimeModel
    /\ IdleNormalizer
    /\ IdleWarpMap
    /\ IdleKeys
    /\ IdleExports
    /\ IdleJobs

SpecWarpAnnotations == InitSpecWarpAnnotations /\ [][NextWarpAnnotations]_vars

InitSpecExports ==
    /\ InitExports
    /\ IdleBatch
    /\ IdleWarped
    /\ IdleMerge
    /\ IdleAlign
    /\ IdleTimeline
    /\ IdleTimeModel
    /\ IdleNormalizer
    /\ IdleWarpMap
    /\ IdleKeys
    /\ IdleWarpAnnotations
    /\ IdleJobs

SpecExports == InitSpecExports /\ [][NextExports]_vars

InitSpecJobs ==
    /\ InitJobs
    /\ IdleBatch
    /\ IdleWarped
    /\ IdleMerge
    /\ IdleAlign
    /\ IdleTimeline
    /\ IdleTimeModel
    /\ IdleNormalizer
    /\ IdleWarpMap
    /\ IdleKeys
    /\ IdleWarpAnnotations
    /\ IdleExports

SpecJobs == InitSpecJobs /\ [][NextJobs]_vars

\* ------------------------------------------------------------------ claims

BatchOver == bpc \in {"done", "crashed"}

\* handling row i raises somewhere
ItemFails(i) == resolve_raises(mapping[i]) \/ mapping[i].alignError

\* C1: when batch_process is over, every row of the job list was handled
\* exactly once in list order, whatever rows failed, and every failing row
\* was reported.
C1_EveryItemAttempted ==
    BatchOver =>
        /\ visited = [i \in 1..Len(mapping) |-> i]
        /\ \A i \in 1..Len(mapping) : ItemFails(i) => i \in Range(reported)

\* ---- get_original_notes_warped

WarpedOver == wpc \in {"returned", "raised"}

\* the original table is a non-identity reordering of the score's rows
Shuffled == \E i \in 1..Len(notes_df.rows) : notes_df.rows[i].id # i

\* row i of the returned table carries the warped start/end computed for a
\* different note
Misattached(i) ==
    /\ gw_result.table.rows[i].id # i
    /\ gw_result.table.rows[i].start = df_annotation_warped.rows[i].start

PitchesDiffer ==
    ~series_equals(Column(notes_df.rows, "midi"), Column(df_annotation_warped.rows, "pitch"))

\* C2 (as stated): without a 'start' column, every shuffled original table
\* makes the step fail and return no table.
C2_ShuffleAlwaysRaises ==
    (WarpedOver /\ "start" \notin notes_df.cols /\ Shuffled)
        => gw_result.kind = "AssertionError"

\* C2 (amended): without a 'start' column the step fails exactly when the
\* pitch column of the original table differs from the pitch column of the
\* warped table; a returned table has in every row the pitch the attached
\* warped start/end were computed for, and the original row otherwise.
C2_PitchMismatchRaises ==
    (WarpedOver /\ "start" \notin notes_df.cols) =>
        /\ gw_result.kind = "AssertionError" <=> PitchesDiffer
        /\ gw_result.kind = "table" =>
              /\ Len(gw_result.table.rows) = Len(notes_df.rows)
              /\ \A i \in 1..Len(notes_df.rows) :
                    /\ gw_result.table.rows[i].midi = df_annotation_warped.rows[i].pitch
                    /\ gw_result.table.rows[i].start = df_annotation_warped.rows[i].start
                    /\ gw_result.table.rows[i].end = df_annotation_warped.rows[i].end
                    /\ gw_result.table.rows[i].id = notes_df.rows[i].id

\* a shuffled table with a differing pitch column was rejected
C2_Witness ==
    /\ wpc = "raised"
    /\ "start" \notin notes_df.cols
    /\ Shuffled
    /\ PitchesDiffer

\* C3: with a 'start' column in the original table the step returns that
\* table unchanged (no 'end' column added, 'start' untouched), warns and raises
\* nothing, whatever the warped table holds.
C3_PriorStartKept ==
    (WarpedOver /\ "start" \in notes_df.cols) =>
        /\ gw_result.kind = "table"
        /\ gw_result.table = notes_df
        /\ "end" \notin gw_result.table.cols
        /\ gw_result.warned

\* a table with a prior 'start' column and pitches that do not match the warped
\* table row by row was returned
C3_Witness ==
    /\ wpc = "returned"
    /\ "start" \in notes_df.cols
    /\ PitchesDiffer
    /\ gw_result.table = notes_df

\* ---- align_warped_notes_labels

MergeReturned == mpc = "returned"

\* C4: in every mode the returned table has an 'end' column; every row but
\* the last has end equal to the next row's start, and the last row has end
\* equal to the audio duration.
C4_EndChained ==
    MergeReturned =>
        LET rows == m_result.table.rows
        IN  /\ "end" \in m_result.table.cols
            /\ \A i \in 1..Len(rows) :
                  rows[i].end = IF i < Len(rows) THEN rows[i + 1].start ELSE Some(m_last_end)

\* the real-time duration column of a mode, if it keeps one
DurationColumn(mode) ==
    IF mode = "labels" THEN "duration_seconds"
    ELSE IF mode = "extended" THEN "duration_time"
    ELSE "none"

\* C5: in the modes that keep a real-time duration column every row's duration
\* is its recomputed end minus its start.
C5_DurationIsEndMinusStart ==
    (MergeReturned /\ DurationColumn(m_mode) # "none") =>
        LET rows == m_result.table.rows
            col == DurationColumn(m_mode)
        IN  \A i \in 1..Len(rows) :
                ~IsMissing(rows[i].start) =>
                    rows[i][col] = Some(Val(rows[i].end) - Val(rows[i].start))

RowsOf(mode) ==
    align_warped_notes_labels(m_warped, m_extended, m_last_end, mode).table.rows

\* C6: for the same input, compact has at most as many rows as labels, labels
\* at most as many as extended, and extended keeps every row of the merge,
\* those without a label included.
C6_ModeRowCounts ==
    MergeReturned =>
        /\ Len(RowsOf("compact")) <= Len(RowsOf("labels"))
        /\ Len(RowsOf("labels")) <= Len(RowsOf("extended"))
        /\ Len(RowsOf("extended")) = Cardinality(index_union(m_warped, m_extended))
        /\ \A i \in 1..Len(m_extended.rows) :
              IsMissing(m_extended.rows[i].label) =>
                  \E j \in 1..Len(RowsOf("extended")) :
                      /\ RowsOf("extended")[j].id = m_extended.rows[i].id
                      /\ IsMissing(RowsOf("extended")[j].label)

\* the merger returned for an input with an unlabelled note and with two rows
\* that share start and label, so that the three modes differ in length
C6_Witness ==
    /\ MergeReturned
    /\ \E i \in 1..Len(m_extended.rows) : IsMissing(m_extended.rows[i].label)
    /\ Len(RowsOf("compact")) < Len(dropna_label(m_extended.rows))
    /\ Len(RowsOf("labels")) < Len(RowsOf("extended"))

\* ---- align_notes_labels_audio

AlignOver == apc \in {"returned", "raised"}

\* C7: a call with an unsupported mode string starts no expensive step (audio
\* loading, feature extraction, warping path), stores nothing and ends with a
\* ValueError.
C7_UnsupportedModeRejectedEarly ==
    a_mode \notin Modes =>
        /\ a_steps = <<>>
        /\ a_stored = <<>>
        /\ apc # "returned"
        /\ AlignOver => a_error = "ValueError"

\* ---- TimelineBuilder

TimelineReturned == tpc = "returned"

\* the measures that have at least one note on a beat
DownbeatMeasures == Range(measures_in_order(downbeats(t_notes).rows))

\* the beats observed in a measure
ObservedBeats(mn) == {Val(r.beat) : r \in Range(rows_of_measure(downbeats(t_notes).rows, mn))}

\* E: the larger of the beat count of the measure's time signature and the
\* highest beat observed in the measure
ExpectedCount(mn) ==
    LET ts == Val(rows_of_measure(downbeats(t_notes).rows, mn)[1].timesig)
        implied == onset2beat_exact(ts, ts, 0)
    IN  Max(implied[1] \div implied[2], SetMax(ObservedBeats(mn)))

\* every beat of every measure (the anacrusis aside) has a note
EveryBeatHasEvent ==
    \A mn \in DownbeatMeasures :
        ~is_anacrusis(mn) => ObservedBeats(mn) = 1..ExpectedCount(mn)

C9_AnacrusisUntouched ==
    TimelineReturned =>
        \A mn \in DownbeatMeasures :
            is_anacrusis(mn) =>
                rows_of_measure(t_result.table.rows, mn)
                    = rows_of_measure(downbeats(t_notes).rows, mn)

\* C10: every row of the returned timeline has a defined start and a defined
\* beat, there is one row per (measure, beat), and the rows are in measure
\* order and, within a measure, in ascending beat order; also for beats missing
\* before the first and after the last observed beat of the piece.
C10_RowsDefinedUniqueOrdered ==
    TimelineReturned =>
        LET rows == t_result.table.rows
            mns == measures_in_order(t_notes.rows)
            position(mn) == CHOOSE k \in 1..Len(mns) : mns[k] = mn
        IN  /\ \A i \in 1..Len(rows) :
                  ~IsMissing(rows[i].start) /\ ~IsMissing(rows[i].beat)
            /\ \A i, j \in 1..Len(rows) :
                  (rows[i].mn = rows[j].mn /\ rows[i].beat = rows[j].beat) => i = j
            /\ \A i, j \in 1..Len(rows) :
                  (i < j /\ ~IsMissing(rows[i].beat) /\ ~IsMissing(rows[j].beat)) =>
                      \/ position(rows[i].mn) < position(rows[j].mn)
                      \/ /\ rows[i].mn = rows[j].mn
                         /\ Val(rows[i].beat) < Val(rows[j].beat)

\* ---- the time model

\* equality and order of two Fractions
FracEq(a, b) == a[1] * b[2] = b[1] * a[2]
FracLeq(a, b) == a[1] * b[2] <= b[1] * a[2]

\* C11: ts_beat_size("n/d") is 3/d if and only if n is a multiple of 3 and
\* n > 3, and 1/d otherwise.
C11_BeatSize ==
    tmpc = "ts_beat_size" =>
        LET n == tm_timesig[1]
            d == tm_timesig[2]
            compound == (\E k \in 2..n : n = 3 * k)
        IN  /\ FracEq(tm_result.value, <<3, d>>) <=> compound
            /\ ~compound => FracEq(tm_result.value, <<1, d>>)

\* ts_beat_size was called for 6/8 and gave 3/8, and for 3/4 and gave 1/4
C11_Witness ==
    /\ tmpc = "ts_beat_size"
    /\ \/ tm_timesig = <<6, 8>> /\ FracEq(tm_result.value, <<3, 8>>)
       \/ tm_timesig = <<3, 4>> /\ FracEq(tm_result.value, <<1, 4>>)

\* C12: for a fixed time signature onset2beat is monotonically non-decreasing
\* in the onset, as a Fraction and rounded, and onset2beat(0, ts, first_beat=1)
\* is exactly 1.
C12_Onset2BeatMonotone ==
    tmpc = "onset2beat" =>
        /\ FracLeq(tm_onsets[1], tm_onsets[2]) =>
              /\ FracLeq(tm_result.exact[1], tm_result.exact[2])
              /\ tm_result.rounded[1] <= tm_result.rounded[2]
        /\ FracEq(tm_result.exact_at_zero, <<1, 1>>)
        /\ tm_result.rounded_at_zero = 1000

\* onset2beat was called for two different onsets more than a beat apart, the
\* smaller one first
C12_Witness ==
    /\ tmpc = "onset2beat"
    /\ tm_timesig = <<6, 8>>
    /\ tm_onsets = <<<<1, 8>>, <<1, 2>>>>
    /\ tm_result.rounded[1] < 2000
    /\ tm_result.rounded[2] > 2000

\* C13: timesig2n_beats("n/d") returns the measure length n/d divided by the
\* beat size when that is a whole number, and fails exactly when it is not; it
\* never returns a count that was cut or rounded.
C13_BeatCount ==
    tmpc = "timesig2n_beats" =>
        LET size == ts_beat_size(tm_timesig)
            \* (n/d) / size as a Fraction
            quotient == <<tm_timesig[1] * size[2], tm_timesig[2] * size[1]>>
            whole == \E k \in 0..tm_timesig[1] : FracEq(quotient, <<k, 1>>)
        IN  /\ tm_result.kind = "ValueError" <=> ~whole
            /\ tm_result.kind = "int" => FracEq(quotient, <<tm_result.value, 1>>)

\* timesig2n_beats was called for a compound and for a simple time signature
C13_Witness ==
    /\ tmpc = "timesig2n_beats"
    /\ tm_result.kind = "int"
    /\ \/ tm_timesig = <<6, 8>> /\ tm_result.value = 2
       \/ tm_timesig = <<4, 4>> /\ tm_result.value = 4

\* C20: aligned_notes2timeline keeps a note as lying on a beat if and only if
\* its exact beat position (onset divided by beat size, plus 1) is a whole
\* number, however close to a whole number it is.
C20_KeptIffExactlyOnBeat ==
    tmpc = "downbeat_mask" =>
        LET position == onset2beat_exact(tm_onsets[1], tm_timesig, 1)
        IN  (tm_result.rows # <<>>) <=> (position[1] % position[2] = 0)

\* ---- ScoreTimeNormalizer

\* the quarterbeat value of a notes row: the expanded position when the file
\* has it
QuarterbeatValue(r) ==
    IF "quarterbeats_playthrough" \in DOMAIN r THEN r.quarterbeats_playthrough
    ELSE r.quarterbeats

\* C14: corpus_to_df_musical_time keeps row count and row order and gives, for
\* every input row, start = quarterbeat value + 1, duration = duration_qb,
\* end = start + duration, pitch = midi, velocity = 1.0 and instrument =
\* "piano"; a note at quarterbeat 0 never has start 0.
C14_CanonicalRows ==
    (npc = "corpus_to_df_musical_time" /\ n_result.kind = "table") =>
        LET out == n_result.table.rows
        IN  /\ Len(out) = Len(n_notes.rows)
            /\ \A i \in 1..Len(out) :
                  /\ out[i].start = QuarterbeatValue(n_notes.rows[i]) + 1
                  /\ out[i].duration = n_notes.rows[i].duration_qb
                  /\ out[i].end = out[i].start + out[i].duration
                  /\ out[i].pitch = n_notes.rows[i].midi
                  /\ out[i].velocity = 1
                  /\ out[i].instrument = "piano"
                  /\ out[i].start # 0

\* a table was returned for a file whose notes are not in ascending order and
\* whose last note is at quarterbeat 0
C14_Witness ==
    /\ npc = "corpus_to_df_musical_time"
    /\ n_result.kind = "table"
    /\ Len(n_notes.rows) >= 2
    /\ n_notes.cols \cap {"quarterbeats", "quarterbeats_playthrough"} = {"quarterbeats"}
    /\ n_notes.rows[1].quarterbeats > 0
    /\ n_notes.rows[Len(n_notes.rows)].quarterbeats = 0
    /\ n_result.table.rows[Len(n_notes.rows)].start = 1

\* C15: get_quarterbeats_column_name gives 'quarterbeats_playthrough' whenever
\* that column is there, 'quarterbeats' when only that one is there and an
\* error when neither is there; merging notes with labels fails when the two
\* tables resolve to different variants.
C15_ColumnResolution ==
    /\ npc = "get_quarterbeats_column_name" =>
          /\ "quarterbeats_playthrough" \in n_notes.cols =>
                (n_result.kind = "str" /\ n_result.value = "quarterbeats_playthrough")
          /\ ("quarterbeats" \in n_notes.cols
                /\ "quarterbeats_playthrough" \notin n_notes.cols) =>
                (n_result.kind = "str" /\ n_result.value = "quarterbeats")
          /\ n_notes.cols \cap {"quarterbeats", "quarterbeats_playthrough"} = {} =>
                n_result.kind = "ValueError"
    /\ npc = "align_corpus_notes_and_labels" =>
          LET resolved(cols) == IF "quarterbeats_playthrough" \in cols THEN "expanded"
                                ELSE IF "quarterbeats" \in cols THEN "plain" ELSE "none"
          IN  (/\ resolved(n_notes.cols) # "none"
               /\ resolved(n_labels.cols) # "none"
               /\ resolved(n_notes.cols) # resolved(n_labels.cols)) =>
                  n_result.kind = "ValueError"

\* the name was asked of a file that has both columns, and a merge of a file
\* with both columns and plain labels was refused
C15_Witness ==
    /\ n_notes.cols \cap {"quarterbeats", "quarterbeats_playthrough"}
          = {"quarterbeats", "quarterbeats_playthrough"}
    /\ \/ npc = "get_quarterbeats_column_name" /\ n_result.kind = "str"
       \/ /\ npc = "align_corpus_notes_and_labels"
          /\ "quarterbeats" \in n_labels.cols
          /\ n_result.kind = "ValueError"

\* ---- aligned_notes2qb_warp_map

\* the position where note i starts and where it ends
StartKey(i) == w_notes.rows[i].quarterbeats
EndKey(i) ==
    w_notes.rows[i].quarterbeats
        + (4 * w_notes.rows[i].duration[1]) \div w_notes.rows[i].duration[2]

\* C16: the warp map has exactly one row per distinct position in the union of
\* all start positions and all end positions (start + 4 * duration), in
\* ascending order; a position where a note starts has the start of the first
\* such note, a position where notes only end has the end of the first note
\* that ends there.
C16_WarpMapRows ==
    wmpc = "returned" =>
        LET notes == 1..Len(w_notes.rows)
            starts == {StartKey(i) : i \in notes}
            ends == {EndKey(i) : i \in notes}
            first_with(key_of(_), k) ==
                CHOOSE i \in notes : key_of(i) = k /\ \A j \in 1..(i - 1) : key_of(j) # k
        IN  /\ {w_result[i].qb : i \in 1..Len(w_result)} = starts \cup ends
            /\ \A i \in 1..(Len(w_result) - 1) : w_result[i].qb < w_result[i + 1].qb
            /\ \A i \in 1..Len(w_result) :
                  IF w_result[i].qb \in starts
                  THEN w_result[i].seconds
                          = w_notes.rows[first_with(StartKey, w_result[i].qb)].start
                  ELSE w_result[i].seconds
                          = w_notes.rows[first_with(EndKey, w_result[i].qb)].end

\* a map was returned for notes of which two start at the same position, where
\* another one ends, and two end at a position where none starts
C16_Witness ==
    /\ wmpc = "returned"
    /\ \E i, j, k \in 1..Len(w_notes.rows) :
          /\ i < j
          /\ StartKey(i) = StartKey(j)
          /\ EndKey(k) = StartKey(i)
          /\ EndKey(i) = EndKey(j)
          /\ \A l \in 1..Len(w_notes.rows) : StartKey(l) # EndKey(i)
    /\ Len(w_result) >= 3

\* ---- aligned_harmonies2tilia_keys

\* the rows of the harmony labels at which a maximal run of one local key begins
RunStarts ==
    SortedSeq({i \in 1..Len(k_harmonies.rows) :
                  i = 1 \/ k_harmonies.rows[i].localkey # k_harmonies.rows[i - 1].localkey})

\* C17: the key export has one span per maximal run of rows with the same
\* local key, in row order; each span starts at the start of its run's first
\* row, each span's end is the next span's start, and the last span's end is
\* the duration of the recording.
C17_KeySpans ==
    kpc = "returned" =>
        LET spans == k_result.rows
            runs == RunStarts
        IN  /\ Len(spans) = Len(runs)
            /\ \A k \in 1..Len(spans) :
                  /\ spans[k].label = k_harmonies.rows[runs[k]].localkey
                  /\ spans[k].start = k_harmonies.rows[runs[k]].start
            /\ \A k \in 1..(Len(spans) - 1) : spans[k].end = spans[k + 1].start
            /\ spans[Len(spans)].end = Some(k_duration)

\* the aligned notes of the call without labels and with mode 'extended' for
\* the notes file and the recording (its warping path) of this call: the notes
\* file as it is when it has a 'start' column, else every note with the real
\* time of its start and of its end
ReferenceAlignedNotes ==
    IF "start" \in a_notes.cols THEN a_notes
    ELSE Table(a_notes.cols \cup {"start", "end"},
               [i \in 1..Len(a_notes.rows) |->
                   LET r == a_notes.rows[i]
                   IN  r @@ [start |-> interp1d(a_wp, r.quarterbeats + 1),
                             end |-> interp1d(a_wp, r.quarterbeats + 1 + r.duration_qb)]])

\* C18: the aligned notes returned by align_notes_labels_audio depend on the
\* notes file and the recording only, not on mode or labels: every successful
\* call returns the aligned notes of the call without labels and with mode
\* 'extended', whose result table they are.
C18_AlignedNotesIndependent ==
    apc = "returned" =>
        /\ a_aligned_notes = ReferenceAlignedNotes
        /\ (a_labels = <<>> /\ a_mode = "extended") => a_result = a_aligned_notes

\* a call with labels and mode 'compact' returned, with a result table that is
\* not the aligned notes
C18_Witness ==
    /\ apc = "returned"
    /\ a_labels # <<>>
    /\ a_mode = "compact"
    /\ "start" \notin a_notes.cols
    /\ Len(a_aligned_notes.rows) = 2
    /\ a_result # a_aligned_notes

\* whether the call succeeds, told from the notes file, the labels file and the
\* mode alone: the notes file has a quarterbeats column and notes, the labels
\* merge with the notes, and the mode is one the call can serve
SucceedsWithoutEvaluation ==
    /\ get_quarterbeats_column_name(a_notes.cols) # "ValueError"
    /\ a_notes.rows # <<>>
    /\ a_labels # <<>> => align_corpus_notes_and_labels(a_notes, a_labels[1]).kind = "table"
    /\ a_labels = <<>> => a_mode \in {"compact", "extended"}
    /\ a_mode \in Modes

\* the result table of the call, told from the notes, the labels, the mode and
\* the recording alone
ResultWithoutEvaluation ==
    LET warped == warp_annotations(corpus_to_df_musical_time(a_notes), a_wp)
    IN  IF a_labels # <<>>
        THEN align_warped_notes_labels(
                 warped, align_corpus_notes_and_labels(a_notes, a_labels[1]).table,
                 a_audio_duration, a_mode).table
        ELSE IF a_mode = "compact" THEN start_end_pitch(warped)
        ELSE ReferenceAlignedNotes

ScoreTimesigs(mn) == {r.timesig : r \in Range(rows_of_measure(t_notes.rows, mn))}

\* C21: when the notes of some measure of the score reference more than one
\* time signature, aligned_notes2timeline raises and returns no timeline, also
\* when the disagreeing note is off the beat or shares its measure and beat
\* with an earlier note.
C21_MixedTimesigsFatal ==
    (/\ tpc # "call"
     /\ \E mn \in Range(measures_in_order(t_notes.rows)) :
            Cardinality(ScoreTimesigs(mn)) > 1)
        => /\ tpc = "raised"
           /\ t_result.kind = "ValueError"

\* the beat of a note of the score as the on-beat filter sees it (thousandths)
BeatFloat(i) == onset2beat_rounded(t_notes.rows[i].mn_onset, t_notes.rows[i].timesig, 1)

\* the notes of the score that pass the on-beat filter, by position
OnBeatNotes == {i \in 1..Len(t_notes.rows) : float_is_integer(BeatFloat(i))}

\* the on-beat notes of the score with a given measure and beat
NotesAt(mn, beat) ==
    {i \in OnBeatNotes : t_notes.rows[i].mn = mn /\ BeatFloat(i) = beat * 1000}

\* the first of a non-empty set of positions
First(S) == CHOOSE i \in S : \A j \in S : i <= j

\* C22: the returned timeline has at most one row per (measure, beat), and the
\* row of a pair that on-beat notes of the score have carries the start, onset
\* and time signature of the first of these notes in table order.
C22_FirstOfEachBeatKept ==
    TimelineReturned =>
        LET rows == t_result.table.rows
        IN  /\ \A i, j \in 1..Len(rows) :
                  (rows[i].mn = rows[j].mn /\ rows[i].beat = rows[j].beat) => i = j
            /\ \A i \in 1..Len(rows) :
                  (~IsMissing(rows[i].beat) /\ NotesAt(rows[i].mn, Val(rows[i].beat)) # {}) =>
                      LET note == t_notes.rows[First(NotesAt(rows[i].mn, Val(rows[i].beat)))]
                      IN  /\ rows[i].start = Some(note.start)
                          /\ rows[i].mn_onset = Some(note.mn_onset)
                          /\ rows[i].timesig = Some(note.timesig)

\* a timeline was returned for a score with a chord on a beat: two notes with
\* different starts on one beat, of which the timeline has the first one's
C22_Witness ==
    /\ TimelineReturned
    /\ \E i \in 1..Len(t_result.table.rows) :
          LET r == t_result.table.rows[i]
          IN  /\ ~IsMissing(r.beat)
              /\ Cardinality(NotesAt(r.mn, Val(r.beat))) = 2
              /\ \E a, b \in NotesAt(r.mn, Val(r.beat)) :
                    /\ a < b
                    /\ t_notes.rows[a].start < t_notes.rows[b].start
                    /\ r.start = Some(t_notes.rows[a].start)

\* the position of a measure in the score
MeasurePosition(mn) ==
    LET mns == measures_in_order(t_notes.rows)
    IN  CHOOSE k \in 1..Len(mns) : mns[k] = mn

\* the (measure, beat) pairs that on-beat notes of the score have
ObservedPairs ==
    {<<t_notes.rows[i].mn, BeatFloat(i) \div 1000>> : i \in OnBeatNotes}

\* measure-then-beat order of two pairs
PairBefore(p, q) ==
    \/ MeasurePosition(p[1]) < MeasurePosition(q[1])
    \/ p[1] = q[1] /\ p[2] < q[2]

\* the start observed for a pair: that of its first on-beat note
ObservedStart(p) == t_notes.rows[First(NotesAt(p[1], p[2]))].start

\* the rows of the returned timeline that were filled in: a beat no on-beat
\* note of the score has
FilledRows ==
    {k \in 1..Len(t_result.table.rows) :
        LET r == t_result.table.rows[k]
        IN  ~IsMissing(r.beat) /\ <<r.mn, Val(r.beat)>> \notin ObservedPairs}

\* the nearest observed pair before and after a row of the timeline
ObservedBefore(k) ==
    LET r == t_result.table.rows[k]
    IN  {p \in ObservedPairs : PairBefore(p, <<r.mn, Val(r.beat)>>)}
ObservedAfter(k) ==
    LET r == t_result.table.rows[k]
    IN  {p \in ObservedPairs : PairBefore(<<r.mn, Val(r.beat)>>, p)}
NearestBefore(k) == CHOOSE p \in ObservedBefore(k) : \A q \in ObservedBefore(k) : p = q \/ PairBefore(q, p)
NearestAfter(k) == CHOOSE p \in ObservedAfter(k) : \A q \in ObservedAfter(k) : p = q \/ PairBefore(p, q)

\* row k lies in a run of filled rows between the rows i and j of the observed
\* pairs p and q and has the start linear interpolation over the run gives it
InterpolatedBetween(k, p, q) ==
    LET rows == t_result.table.rows
    IN  \E i \in 1..(k - 1), j \in (k + 1)..Len(rows) :
            /\ rows[i].mn = p[1] /\ rows[i].beat = Some(p[2])
            /\ rows[j].mn = q[1] /\ rows[j].beat = Some(q[2])
            /\ rows[i].start = Some(ObservedStart(p))
            /\ rows[j].start = Some(ObservedStart(q))
            /\ \A m \in (i + 1)..(j - 1) : m \in FilledRows
            /\ ~IsMissing(rows[k].start)
            /\ (Val(rows[k].start) - ObservedStart(p)) * (j - i)
                  = (ObservedStart(q) - ObservedStart(p)) * (k - i)
            /\ ObservedStart(p) < ObservedStart(q) =>
                  /\ ObservedStart(p) < Val(rows[k].start)
                  /\ Val(rows[k].start) < ObservedStart(q)

\* C23: in the returned timeline a filled-in beat that lies, in
\* measure-then-beat order, between two observed beats has the start that
\* linear interpolation between the nearest observed beat before it and the
\* nearest observed beat after it gives, evenly spaced over the run of
\* filled-in rows, and so strictly between their starts when those differ.
C23_LinearBetweenObserved ==
    TimelineReturned =>
        \A k \in FilledRows :
            (ObservedBefore(k) # {} /\ ObservedAfter(k) # {}) =>
                InterpolatedBetween(k, NearestBefore(k), NearestAfter(k))

\* the measures of the score without a note on a beat that lie between two
\* measures with notes on a beat
EmptyMeasuresBetween ==
    {mn \in Range(measures_in_order(t_notes.rows)) :
        /\ mn \notin DownbeatMeasures
        /\ \E before, after \in DownbeatMeasures :
              /\ MeasurePosition(before) < MeasurePosition(mn)
              /\ MeasurePosition(mn) < MeasurePosition(after)}

\* the number of beats of the time signature of a measure of the score
BeatsOfMeasure(mn) ==
    LET ts == rows_of_measure(t_notes.rows, mn)[1].timesig
        implied == onset2beat_exact(ts, ts, 0)
    IN  implied[1] \div implied[2]

\* C24: a measure without any on-beat note between two measures that have
\* some is present in the returned timeline with all its beats, and their
\* starts are interpolated between the last observed beat before the measure
\* and the first observed beat after it.
C24_EmptyMeasureBridged ==
    TimelineReturned =>
        \A mn \in EmptyMeasuresBetween :
            LET rows == t_result.table.rows
                ks == {k \in 1..Len(rows) : rows[k].mn = mn}
            IN  /\ {rows[k].beat : k \in ks} = {Some(b) : b \in 1..BeatsOfMeasure(mn)}
                /\ \A k \in ks :
                      /\ k \in FilledRows
                      /\ InterpolatedBetween(k, NearestBefore(k), NearestAfter(k))

\* C29: every row of the de-duplicated on-beat table is in the returned
\* timeline with the same start and the same other fields, and every other
\* row of the timeline is a (measure, beat) pair that was not observed.
C29_ObservedRowsPreserved ==
    TimelineReturned =>
        LET before == downbeats(t_notes).rows
            rows == t_result.table.rows
        IN  /\ \A i \in 1..Len(before) : \E k \in 1..Len(rows) : rows[k] = before[i]
            /\ \A k \in 1..Len(rows) :
                  \/ \E i \in 1..Len(before) : rows[k] = before[i]
                  \/ \A i \in 1..Len(before) :
                        ~(before[i].mn = rows[k].mn /\ before[i].beat = rows[k].beat)

\* ---- warp_annotations

\* the two coordinates of the points of the warping path
AudioFrames == [k \in 1..Len(wa_path) |-> wa_path[k][1]]
ScoreFrames == [k \in 1..Len(wa_path) |-> wa_path[k][2]]

\* v is the value at T of the piecewise-linear function through the points
\* (xs[k], ys[k]), continued linearly beyond the first and the last point
LinearThrough(xs, ys, T, v) ==
    \E k \in 1..(Len(xs) - 1) :
        /\ \/ xs[k] <= T /\ T <= xs[k + 1]
           \/ k = 1 /\ T < xs[1]
           \/ k = Len(xs) - 1 /\ T > xs[Len(xs)]
        /\ (v - ys[k]) * (xs[k + 1] - xs[k]) = (ys[k + 1] - ys[k]) * (T - xs[k])

\* every event of the warped table has the start and end that the linear
\* function through the points (xs, ys) gives at its symbolic start and end
WarpedThrough(xs, ys) ==
    /\ Len(wa_result.rows) = Len(wa_annotation.rows)
    /\ \A i \in 1..Len(wa_annotation.rows) :
          LET event == wa_annotation.rows[i]
              warped == wa_result.rows[i]
          IN  /\ LinearThrough(xs, ys, event.start * feature_rate, warped.start)
              /\ LinearThrough(xs, ys, event.end * feature_rate, warped.end)

\* C25: warp_annotations gives every event the start and end obtained by
\* piecewise-linear interpolation through the points of the warping path with
\* the audio frame as x and the score frame as y, evaluated at the symbolic
\* start and end, extrapolated linearly outside the range of the path.
C25_InterpolatedAudioAsX ==
    wapc = "returned" => WarpedThrough(AudioFrames, ScoreFrames)

\* C25, amended: the score frame is x and the audio frame is y: the symbolic
\* time is looked up on the score axis and the audio time is read off;
\* outside the range of the path the value is extrapolated linearly, and
\* every event gets a start, an end and the duration end - start.
C25_InterpolatedScoreAsX ==
    wapc = "returned" =>
        /\ WarpedThrough(ScoreFrames, AudioFrames)
        /\ \A i \in 1..Len(wa_result.rows) :
              wa_result.rows[i].duration = wa_result.rows[i].end - wa_result.rows[i].start

\* an event that ends after the last point of a path whose audio and score
\* axes differ was warped to a time after the last audio frame of the path
C25_Witness ==
    /\ wapc = "returned"
    /\ AudioFrames # ScoreFrames
    /\ \E i \in 1..Len(wa_result.rows) :
          /\ wa_annotation.rows[i].end * feature_rate > ScoreFrames[Len(wa_path)]
          /\ wa_annotation.rows[i].start * feature_rate < ScoreFrames[Len(wa_path)]
          /\ wa_result.rows[i].end > AudioFrames[Len(wa_path)]
          /\ wa_result.rows[i].start < AudioFrames[Len(wa_path)]

\* ---- the exports of align_and_maybe_timeline

ExportsOver == epc \in {"returned", "raised"}

\* the file with the given suffix was stored with the given content
Produced(suffix, table) == Stored(suffix, table) \in Range(e_written)

\* C26: every export that was asked for and that can be built from the
\* results of the alignment is stored, with the content it has when it is the
\* only one asked for, whichever other exports were asked for and whether or
\* not another export failed.
C26_ExportsIndependent ==
    ExportsOver =>
        /\ e_warp_map =>
              Produced(".quarters2seconds.csv", aligned_notes2qb_warp_map(e_notes))
        /\ (e_timeline /\ aligned_notes2timeline(e_notes).kind = "table") =>
              Produced(".timeline.csv", aligned_notes2timeline(e_notes).table.rows)
        /\ (e_tilia /\ aligned_notes2tilia_beatgrid(e_notes).kind = "table") =>
              Produced(".beatgrid.csv", aligned_notes2tilia_beatgrid(e_notes).rows)
        /\ (e_tilia /\ e_labels) =>
              Produced(".keys.csv", aligned_harmonies2tilia_keys(e_harmonies).rows)

\* ---- the jobs of a batch

JobsOver == jbpc \in {"done", "crashed"}

\* what the row gives when it is the only row of a batch: the caches are empty
JobAlone(item) ==
    IF item.audio = "nan" THEN NoOutput ELSE job_output(EmptyCache, EmptyCache, item)

\* C27: when the batch is over, every row has the outputs it has when it is
\* processed alone, whatever rows came before it and whatever they left in
\* the caches of ts_beat_size and onset2beat.
C27_JobsIndependent ==
    JobsOver => \A i \in 1..Len(jb_items) : jb_outputs[i] = JobAlone(jb_items[i])

\* ---- LabelMerger, continued

\* C28: every row of the table align_warped_notes_labels returns that has a
\* start and a label pairs the warped start of a note with a label at the
\* quarterbeat position of that note, also when the notes and labels joined on
\* quarterbeats have rows of labels where no note starts or several rows for
\* one note.
C28_LabelOfSameNote ==
    MergeReturned =>
        \A k \in 1..Len(m_result.table.rows) :
            LET r == m_result.table.rows[k]
            IN  (~IsMissing(r.start) /\ ~IsMissing(r.label)) =>
                    \E i \in 1..Len(m_notes.rows), j \in 1..Len(m_labels.rows) :
                        /\ r.start = Some(m_warped.rows[i].start)
                        /\ r.label = Some(m_labels.rows[j].label)
                        /\ m_labels.rows[j].quarterbeats = m_notes.rows[i].quarterbeats

====
